---- MODULE Spec2Model ----
(***************************************************************************)
(* Model of the parameter optimizer of aster_lick_hunter_node              *)
(* (src/optimize-config.js).                                               *)
(*                                                                         *)
(* Spec     one call of optimizeSymbolParameters: candidate grids,         *)
(*          baseline, coarse search, window/cooldown refinement, final     *)
(*          stress test, with the memoizing runBacktest.                   *)
(* SpecRun  main() and the per-symbol loop of generateRecommendations.     *)
(*                                                                         *)
(* Units.  TP and SL are in tenths of a percent (TP 10 = 1.0 %).  Rates    *)
(* and multipliers of the fill model are in hundredths (160 = 1.6).        *)
(* Scores are kept times 800, so that the normalized weights (percent),    *)
(* the two-sided averages (/2) and the division by (drawdown + 1) of the   *)
(* result domain are exact in integers.                                    *)
(***************************************************************************)
EXTENDS Integers, Sequences, FiniteSets, TLC

(***************************************************************************)
(* IEEE-754 values as far as the scoring code can tell them apart: a       *)
(* finite number, NaN, +Infinity or -Infinity.                             *)
(***************************************************************************)
NFin(n) == [k |-> "fin", v |-> n]

NaN == [k |-> "nan", v |-> 0]

PInf == [k |-> "inf", v |-> 1]

NInf == [k |-> "inf", v |-> -1]

IsFinite(a) == a.k = "fin"

NAdd(a, b) ==
  IF a.k = "nan" \/ b.k = "nan" THEN NaN
  ELSE IF a.k = "inf" /\ b.k = "inf" THEN (IF a.v = b.v THEN a ELSE NaN)
  ELSE IF a.k = "inf" THEN a
  ELSE IF b.k = "inf" THEN b
  ELSE NFin(a.v + b.v)

NNeg(a) == IF a.k = "nan" THEN a ELSE [a EXCEPT !.v = -(a.v)]

NSub(a, b) == NAdd(a, NNeg(b))

\* a * c for an integer c
NMul(a, c) ==
  IF a.k = "nan" THEN NaN
  ELSE IF a.k = "inf" THEN (IF c = 0 THEN NaN ELSE IF c > 0 THEN a ELSE NNeg(a))
  ELSE NFin(a.v * c)

\* a / d for an integer d > 0 (exact on the result domain)
NDiv(a, d) == IF a.k = "fin" THEN NFin(a.v \div d) ELSE a

NGt(a, b) ==
  /\ a.k # "nan"
  /\ b.k # "nan"
  /\ \/ a.k = "fin" /\ b.k = "fin" /\ a.v > b.v
     \/ a = PInf /\ b # PInf
     \/ b = NInf /\ a # NInf

NLt(a, b) == NGt(b, a)

NAbs(a) ==
  IF a.k = "nan" THEN NaN
  ELSE IF a.k = "inf" THEN PInf
  ELSE NFin(IF a.v < 0 THEN -(a.v) ELSE a.v)

\* Math.max(a, b)
NMax(a, b) ==
  IF a.k = "nan" \/ b.k = "nan" THEN NaN
  ELSE IF NGt(b, a) THEN b ELSE a

\* x || 0
OrZero(a) == IF a.k = "nan" \/ a = NFin(0) THEN NFin(0) ELSE a

Max(a, b) == IF a >= b THEN a ELSE b

Min(a, b) == IF a <= b THEN a ELSE b

(***************************************************************************)
(* Program constants.                                                      *)
(***************************************************************************)
WEIGHT_PNL == 50

WEIGHT_SHARPE == 30

WEIGHT_DRAWDOWN == 20

\* OPTIMIZER_CVAR_PENALTY default 0.15, in hundredths
CVAR_PENALTY_WEIGHT == 15

\* OPTIMIZER_SCENARIO_PENALTY default 0.5, in hundredths
SCENARIO_PENALTY_WEIGHT == 50

\* quick mode
VOLATILITY_PENALTY_FACTOR == 1

DEFAULT_THRESHOLD_WINDOW_MS == 60000

DEFAULT_THRESHOLD_COOLDOWN_MS == 30000

HUNTER_COOLDOWN_MS == 120000

\* 0.85 and 0.10, in hundredths
LIMIT_FILL_RATE == 85

MARKET_FALLBACK_RATE == 10

ENABLE_SCENARIOS == TRUE

IS_THOROUGH_MODE == FALSE

scenarioProfiles ==
  << [name |-> "stress_high",
      overrides |-> [slippageMultiplier |-> 160, limitFillRate |-> 60,
                     marketFallbackRate |-> 22]],
     [name |-> "calm",
      overrides |-> [slippageMultiplier |-> 75, limitFillRate |-> 92,
                     marketFallbackRate |-> 5]] >>

(***************************************************************************)
(* Bounds of the model.                                                    *)
(***************************************************************************)
\* most (leverage, margin, TP, SL) combinations in one coarse grid
MaxCoarseCombos == 2

\* most (window, cooldown) pairs in one refinement grid
MaxRefinePairs == 2

\* most threshold candidates per side
MaxThresholds == 1

(***************************************************************************)
(* Inputs.  What backtestSymbol returns depends on the historical data and *)
(* on Math.random; here it is any element of a small set of results.      *)
(* ledgerSL is the number of ledger entries closed by SL in the simulation *)
(* (completedTrades with exitReason 'SL'); it is not a property of the     *)
(* returned object (lines 2692-2704).                                      *)
(***************************************************************************)
GoodResult ==
  [totalTrades |-> 10, winRate |-> 90, totalPnl |-> NFin(20), sharpeRatio |-> 2,
   maxDrawdown |-> 1, profitFactor |-> NFin(2), cvar |-> NFin(-1), ledgerSL |-> 1]

\* loses money: gross profit below half the gross loss
LosingResult ==
  [totalTrades |-> 10, winRate |-> 20, totalPnl |-> NFin(-10), sharpeRatio |-> -1,
   maxDrawdown |-> 15, profitFactor |-> NFin(0), cvar |-> NFin(-5), ledgerSL |-> 8]

\* 27 of 30 trades stopped out, carried by three wins ten times a loss
StoppedResult ==
  [totalTrades |-> 30, winRate |-> 10, totalPnl |-> NFin(30), sharpeRatio |-> 1,
   maxDrawdown |-> 3, profitFactor |-> NFin(1), cvar |-> NFin(-2), ledgerSL |-> 27]

\* a little more profit than GoodResult with a heavy loss tail
TailResult ==
  [totalTrades |-> 10, winRate |-> 80, totalPnl |-> NFin(24), sharpeRatio |-> 2,
   maxDrawdown |-> 3, profitFactor |-> NFin(3), cvar |-> NFin(-60), ledgerSL |-> 2]

\* one entry at price 0 closed EOD at a positive price: size and PnL are
\* Infinity, the variance is NaN (sharpe 0), the drawdown Infinity - Infinity
\* never exceeds 0
BlowupResult ==
  [totalTrades |-> 1, winRate |-> 100, totalPnl |-> PInf, sharpeRatio |-> 0,
   maxDrawdown |-> 0, profitFactor |-> PInf, cvar |-> PInf, ledgerSL |-> 0]

LongResults == {GoodResult, LosingResult, StoppedResult, TailResult, BlowupResult}

ShortResults == {GoodResult}

\* lines 2408-2415: what backtestSymbol returns for a side without rows
NoTradesResult ==
  [totalTrades |-> 0, winRate |-> 0, totalPnl |-> NFin(0), sharpeRatio |-> 0,
   maxDrawdown |-> 0, profitFactor |-> NFin(0), cvar |-> NFin(0), ledgerSL |-> 0]

\* the symbol has liquidations on both sides, or on neither
TableSides == { {"SELL", "BUY"}, {} }

\* symbolConfig as read from config.user.json; 0 stands for an absent (or zero)
\* property, which the || defaults of lines 1266-1271 treat alike
SymbolConfigs ==
  { [tradeSize |-> 2, maxPositionMarginUSDT |-> 4, leverage |-> 10,
     volumeThresholdUSDT |-> 1000, tpPercent |-> 10, slPercent |-> 5,
     useThreshold |-> TRUE, thresholdTimeWindow |-> 60000,
     thresholdCooldown |-> 30000],
    [tradeSize |-> 1, maxPositionMarginUSDT |-> 2, leverage |-> 25,
     volumeThresholdUSDT |-> 0, tpPercent |-> 0, slPercent |-> 0,
     useThreshold |-> FALSE, thresholdTimeWindow |-> 0,
     thresholdCooldown |-> 0] }

\* rangeStats.range95 of the symbol's price data, in percent
Range95Values == {6}

LeverageValues == {10, 25}

MarginValues == {4}

TpValues == {10, 50}

SlValues == {5, 50}

ThresholdValues == {1000}

WindowValues == {60000}

CooldownValues == {30000, 60000}

\* dedupeAndSort: the ascending sequence of a finite set of numbers
RECURSIVE SortedSeq(_)
SortedSeq(S) ==
  IF S = {} THEN <<>>
  ELSE LET m == CHOOSE x \in S : \A y \in S : x <= y
       IN <<m>> \o SortedSeq(S \ {m})

\* the candidate lists a generator can return: ascending, without duplicates,
\* never empty
CandidateLists(values, maxLen) ==
  { SortedSeq(S) : S \in { T \in SUBSET values : T # {} /\ Cardinality(T) <= maxLen } }

CandidateGrids ==
  { g \in [leverage : CandidateLists(LeverageValues, MaxCoarseCombos),
           margin : CandidateLists(MarginValues, MaxCoarseCombos),
           tp : CandidateLists(TpValues, MaxCoarseCombos),
           sl : CandidateLists(SlValues, MaxCoarseCombos),
           longThreshold : CandidateLists(ThresholdValues, MaxThresholds),
           shortThreshold : CandidateLists(ThresholdValues, MaxThresholds),
           timeWindow : CandidateLists(WindowValues, MaxRefinePairs),
           cooldown : CandidateLists(CooldownValues, MaxRefinePairs)] :
      /\ Len(g.leverage) * Len(g.margin) * Len(g.tp) * Len(g.sl) <= MaxCoarseCombos
      /\ Len(g.timeWindow) * Len(g.cooldown) <= MaxRefinePairs }

(***************************************************************************)
(* The locals optimizeSymbolParameters derives from symbolConfig.          *)
(***************************************************************************)
OrDefault(x, d) == IF x # 0 THEN x ELSE d

CurrentOf(symbolConfig) ==
  LET baseTradeSize == symbolConfig.tradeSize
      currentMargin == OrDefault(symbolConfig.maxPositionMarginUSDT,
                                 Max(baseTradeSize * 5, 50))
  IN [ baseTradeSize |-> baseTradeSize,
       baseShortTradeSize |-> baseTradeSize,
       currentMargin |-> currentMargin,
       leverageCurrent |-> OrDefault(symbolConfig.leverage, 10),
       currentLongThreshold |-> symbolConfig.volumeThresholdUSDT,
       currentShortThreshold |-> symbolConfig.volumeThresholdUSDT,
       currentTp |-> OrDefault(symbolConfig.tpPercent, 10),
       currentSl |-> OrDefault(symbolConfig.slPercent, 50),
       thresholdEnabled |-> symbolConfig.useThreshold,
       longBasePositions |->
         Max(1, OrDefault(currentMargin \div OrDefault(baseTradeSize, 1), 1)),
       shortBasePositions |->
         Max(1, OrDefault(currentMargin \div OrDefault(baseTradeSize, 1), 1)),
       currentTimeWindowMs |->
         OrDefault(symbolConfig.thresholdTimeWindow, DEFAULT_THRESHOLD_WINDOW_MS),
       currentCooldownMs |->
         OrDefault(symbolConfig.thresholdCooldown, DEFAULT_THRESHOLD_COOLDOWN_MS) ]

determineMinDcaSlots(range95) ==
  IF range95 <= 0 THEN 6
  ELSE IF range95 >= 8 THEN 24
  ELSE IF range95 >= 6 THEN 18
  ELSE IF range95 >= 4 THEN 12
  ELSE IF range95 >= 2 THEN 8
  ELSE 6

\* leverageBrackets[symbol] absent: Math.floor(maxMargin / tradeSize)
calculateMaxPositionsForLeverage(tradeSize, leverage, maxMargin) ==
  maxMargin \div tradeSize

(***************************************************************************)
(* runBacktest and its cache.                                              *)
(***************************************************************************)
Ov(overrides, f, d) == IF f \in DOMAIN overrides THEN overrides[f] ELSE d

defaultCooldownMs(cur) == Max(0, cur.currentCooldownMs)

defaultWindowMs(cur) ==
  Max(5000, OrDefault(cur.currentTimeWindowMs, DEFAULT_THRESHOLD_WINDOW_MS))

\* Number(v).toFixed(6) of a whole value: its integer digits and six decimals
ToFixed6(v) == << v, 0 >>

\* the same for TP and SL, which are held in tenths
ToFixed6Tenths(v) == << v \div 10, (v % 10) * 100000 >>

\* lines 1408-1416: the key names the ten positional values and nothing of
\* overrides but cooldownMs, hunterCooldownMs and windowMs
BacktestKey(cur, a) ==
  << a.side, ToFixed6(a.threshold), ToFixed6(a.maxPositions), ToFixed6(a.tradeSize),
     ToFixed6(a.leverage), ToFixed6Tenths(a.tp), ToFixed6Tenths(a.sl),
     ToFixed6(Ov(a.overrides, "cooldownMs", defaultCooldownMs(cur))),
     ToFixed6(Ov(a.overrides, "hunterCooldownMs", HUNTER_COOLDOWN_MS)),
     ToFixed6(Ov(a.overrides, "windowMs", defaultWindowMs(cur))) >>

\* lines 1429-1444: what runBacktest hands to backtestSymbol
BacktestCallOptions(cur, a) ==
  [ suppressLogs |-> TRUE,
    cooldownMs |-> Ov(a.overrides, "cooldownMs", defaultCooldownMs(cur)),
    hunterCooldownMs |-> Ov(a.overrides, "hunterCooldownMs", HUNTER_COOLDOWN_MS),
    windowMs |-> Ov(a.overrides, "windowMs", defaultWindowMs(cur)) ]

\* lines 2374-2381: the options backtestSymbol simulates with
SimOptions(options) ==
  [ cooldownMs |-> IF "cooldownMs" \in DOMAIN options
                   THEN Max(0, options.cooldownMs) ELSE 0,
    hunterCooldownMs |-> IF "hunterCooldownMs" \in DOMAIN options
                         THEN Max(0, options.hunterCooldownMs) ELSE HUNTER_COOLDOWN_MS,
    windowMs |-> IF "windowMs" \in DOMAIN options
                 THEN Max(1000, options.windowMs) ELSE DEFAULT_THRESHOLD_WINDOW_MS,
    slippageMultiplier |-> IF "slippageMultiplier" \in DOMAIN options
                           THEN Max(25, options.slippageMultiplier) ELSE 100,
    limitFillRate |-> IF "limitFillRate" \in DOMAIN options
                      THEN Min(Max(options.limitFillRate, 10), 99) ELSE LIMIT_FILL_RATE,
    marketFallbackRate |-> IF "marketFallbackRate" \in DOMAIN options
                           THEN Min(Max(options.marketFallbackRate, 0), 50)
                           ELSE MARKET_FALLBACK_RATE ]

\* runBacktest without the lookup of line 1418: every call runs the simulator
runBacktest_NoLookup(cur, m, a, fresh) ==
  LET key == BacktestKey(cur, a)
      stored == key \in DOMAIN m.cache
      entry == [ result |-> IF stored THEN m.cache[key].result ELSE fresh[key],
                 producer |-> a, sim |-> SimOptions(BacktestCallOptions(cur, a)) ]
  IN [ cache |-> IF stored THEN [m.cache EXCEPT ![key] = entry] ELSE m.cache @@ (key :> entry),
       log |-> Append(m.log, [args |-> a, hit |-> FALSE, producer |-> entry.producer,
                              sim |-> entry.sim, result |-> entry.result]),
       executed |-> m.executed + 1,
       cacheHits |-> m.cacheHits,
       out |-> entry.result ]

\* One call of runBacktest on the machine m = [cache, log, executed, cacheHits].
\* fresh maps every key not yet cached to the result backtestSymbol would
\* return for it.  The log entry records, beside the call, the call that
\* produced the returned result and the options it was simulated with.
runBacktest(cur, m, a, fresh) ==
  LET key == BacktestKey(cur, a)
      hit == key \in DOMAIN m.cache
      entry == IF hit THEN m.cache[key]
               ELSE [ result |-> fresh[key], producer |-> a,
                      sim |-> SimOptions(BacktestCallOptions(cur, a)) ]
  IN [ cache |-> IF hit THEN m.cache ELSE m.cache @@ (key :> entry),
       log |-> Append(m.log, [args |-> a, hit |-> hit, producer |-> entry.producer,
                              sim |-> entry.sim, result |-> entry.result]),
       executed |-> m.executed + (IF hit THEN 0 ELSE 1),
       cacheHits |-> m.cacheHits + (IF hit THEN 1 ELSE 0),
       out |-> entry.result ]

Args(side, threshold, maxPositions, tradeSize, leverage, tp, sl, overrides) ==
  [ side |-> side, threshold |-> threshold, maxPositions |-> maxPositions,
    tradeSize |-> tradeSize, leverage |-> leverage, tp |-> tp, sl |-> sl,
    overrides |-> overrides ]

NoOverrides == [x \in {} |-> 0]


(***************************************************************************)
(* Scoring.  Every score and penalty below is the code's value times 800.  *)
(***************************************************************************)
CapSharpe(x) == Min(Max(x, -5), 5)

\* result.maxDrawdown || 1
DrawdownOr1(r) == IF r.maxDrawdown # 0 THEN r.maxDrawdown ELSE 1

CombinedDrawdown(L, S) == Max(DrawdownOr1(L), DrawdownOr1(S))

CombinedSharpeSum(L, S) == CapSharpe(L.sharpeRatio) + CapSharpe(S.sharpeRatio)

\* pnl * w.pnl + sharpe * w.sharpe + pnl / (drawdown + 1) * w.drawdown
WeightedScore(pnl, sharpeSum, drawdown) ==
  NAdd(NAdd(NMul(pnl, WEIGHT_PNL * 8), NFin(sharpeSum * WEIGHT_SHARPE * 4)),
       NDiv(NMul(pnl, WEIGHT_DRAWDOWN * 8), drawdown + 1))

computeVolatilityPenalty(range95, combinedDrawdown, margin, combinedPnl) ==
  IF ~IsFinite(combinedPnl) THEN 0
  ELSE IF margin <= 0 \/ combinedDrawdown <= 0 THEN 0
  ELSE IF Max(0, range95 - 4) <= 0 THEN 0
  ELSE IF 4 * combinedDrawdown - 3 * margin <= 0 THEN 0
  ELSE (Max(0, range95 - 4) * (4 * combinedDrawdown - 3 * margin)
        * Max(combinedPnl.v, margin) * 20) \div margin

VolatilityPenalty(range95, combinedDrawdown, margin, combinedPnl) ==
  computeVolatilityPenalty(range95, combinedDrawdown, margin, combinedPnl)
    * VOLATILITY_PENALTY_FACTOR

\* Math.abs(((long.cvar || 0) + (short.cvar || 0)) / 2) * CVAR_PENALTY_WEIGHT
CvarPenalty(L, S) ==
  NMul(NAbs(NAdd(OrZero(L.cvar), OrZero(S.cvar))), CVAR_PENALTY_WEIGHT * 4)

\* lines 1453-1477: currentFinalScoreAdjusted
currentFinalScoreAdjusted(range95, margin, L, S) ==
  LET currentTotalPnl == NAdd(L.totalPnl, S.totalPnl)
      currentDrawdown == CombinedDrawdown(L, S)
      currentScoreRaw ==
        WeightedScore(currentTotalPnl, CombinedSharpeSum(L, S), currentDrawdown)
      currentVolatilityPenalty ==
        VolatilityPenalty(range95, currentDrawdown, margin, currentTotalPnl)
  IN NSub(NSub(currentScoreRaw, NFin(currentVolatilityPenalty)), CvarPenalty(L, S))

\* lines 757-780
calculateCombinationScore(L, S) ==
  LET combinedPnl == NAdd(OrZero(L.totalPnl), OrZero(S.totalPnl))
      combinedDrawdown == CombinedDrawdown(L, S)
  IN [ finalScore |-> WeightedScore(combinedPnl, CombinedSharpeSum(L, S), combinedDrawdown),
       combinedPnl |-> combinedPnl,
       combinedDrawdown |-> combinedDrawdown ]

\* result.exitReasons?.SL || 0
ExitReasonsSL(result) ==
  IF "exitReasons" \in DOMAIN result THEN result.exitReasons.SL ELSE 0

\* the filters without the risk/reward check
FeasibilityRejections_NoRiskReward(L, S, leverage, tp, sl) ==
  LET stopExitCount == ExitReasonsSL(L) + ExitReasonsSL(S)
      totalTrades == L.totalTrades + S.totalTrades
      stopRateHigh == totalTrades > 0 /\ 100 * stopExitCount > 65 * totalTrades
      pfLow == NLt(NMul(NAdd(OrZero(L.profitFactor), OrZero(S.profitFactor)), 100),
                   NFin(210))
  IN IF pfLow \/ stopRateHigh
       THEN (IF pfLow THEN {"profitFactor"} ELSE {})
            \cup (IF stopRateHigh THEN {"stopRate"} ELSE {})
     ELSE IF sl * leverage >= 900 THEN {"liquidationSafety"}
     ELSE IF (L.winRate + S.winRate) * (tp + sl) < 200 * sl + 10 * (tp + sl)
       THEN {"winRate"}
     ELSE {}

\* the filters with the liquidation distance taken as 100 / leverage * 9
FeasibilityRejections_LooseLiquidation(L, S, leverage, tp, sl) ==
  LET stopExitCount == ExitReasonsSL(L) + ExitReasonsSL(S)
      totalTrades == L.totalTrades + S.totalTrades
      stopRateHigh == totalTrades > 0 /\ 100 * stopExitCount > 65 * totalTrades
      pfLow == NLt(NMul(NAdd(OrZero(L.profitFactor), OrZero(S.profitFactor)), 100),
                   NFin(210))
  IN IF pfLow \/ stopRateHigh
       THEN (IF pfLow THEN {"profitFactor"} ELSE {})
            \cup (IF stopRateHigh THEN {"stopRate"} ELSE {})
     ELSE IF sl * leverage >= 9000 THEN {"liquidationSafety"}
     ELSE IF 100 * tp < 33 * sl THEN {"riskReward"}
     ELSE IF (L.winRate + S.winRate) * (tp + sl) < 200 * sl + 10 * (tp + sl)
       THEN {"winRate"}
     ELSE {}

\* the feasibility filters of lines 1640-1681, in the code's order: the set of
\* rejection counters the combination increments ({} when it passes)
FeasibilityRejections(L, S, leverage, tp, sl) ==
  LET stopExitCount == ExitReasonsSL(L) + ExitReasonsSL(S)
      totalTrades == L.totalTrades + S.totalTrades
      stopRateHigh == totalTrades > 0 /\ 100 * stopExitCount > 65 * totalTrades
      pfLow == NLt(NMul(NAdd(OrZero(L.profitFactor), OrZero(S.profitFactor)), 100),
                   NFin(210))
  IN IF pfLow \/ stopRateHigh
       THEN (IF pfLow THEN {"profitFactor"} ELSE {})
            \cup (IF stopRateHigh THEN {"stopRate"} ELSE {})
     ELSE IF sl * leverage >= 900 THEN {"liquidationSafety"}
     ELSE IF 100 * tp < 33 * sl THEN {"riskReward"}
     ELSE IF (L.winRate + S.winRate) * (tp + sl) < 200 * sl + 10 * (tp + sl)
       THEN {"winRate"}
     ELSE {}

\* lines 1598-1630: the best-PnL threshold of one side; Nil when every
\* threshold was skipped
Nil == [nil |-> TRUE]

IsNil(x) == "nil" \in DOMAIN x

RECURSIVE SweepThresholds(_, _, _, _, _, _, _)
SweepThresholds(cur, m, fresh, p, thresholds, i, bestSide) ==
  IF i > Len(thresholds) THEN [m |-> m, bestSide |-> bestSide]
  ELSE IF ~IS_THOROUGH_MODE /\ thresholds[i] < p.minAllowed
    THEN SweepThresholds(cur, m, fresh, p, thresholds, i + 1, bestSide)
  ELSE LET candidateThreshold == Max(1, thresholds[i])
           r == runBacktest(cur, m,
                            Args(p.side, candidateThreshold, p.maxPositions, p.tradeSize,
                                 p.leverage, p.tp, p.sl, NoOverrides), fresh)
           better == IsNil(bestSide) \/ NGt(r.out.totalPnl, bestSide.result.totalPnl)
       IN SweepThresholds(cur, r, fresh, p, thresholds, i + 1,
                          IF better
                            THEN [ threshold |-> candidateThreshold, result |-> r.out,
                                   tradeSize |-> p.tradeSize,
                                   maxPositions |-> p.maxPositions ]
                            ELSE bestSide)

\* the two sides of every profile, in order: the machine after the calls and
\* the scenarioResults list
RunScenarios(cur, m, fresh, long, short, leverage, tp, sl, extra) ==
  LET Go[i \in 1..(Len(scenarioProfiles) + 1)] ==
        IF i = 1 THEN [m |-> m, results |-> <<>>]
        ELSE LET prev == Go[i - 1]
                 profile == scenarioProfiles[i - 1]
                 overrides == extra @@ profile.overrides @@ [suppressLogs |-> TRUE]
                 rl == runBacktest(cur, prev.m,
                                   Args("SELL", long.threshold, long.maxPositions,
                                        long.tradeSize, leverage, tp, sl, overrides), fresh)
                 rs == runBacktest(cur, rl,
                                   Args("BUY", short.threshold, short.maxPositions,
                                        short.tradeSize, leverage, tp, sl, overrides), fresh)
             IN [ m |-> rs,
                  results |-> Append(prev.results,
                                     [ name |-> profile.name,
                                       totalPnl |-> NAdd(rl.out.totalPnl, rs.out.totalPnl) ]) ]
  IN Go[Len(scenarioProfiles) + 1]

\* scenarioResults.reduce((prev, curr) => curr.totalPnl < prev.totalPnl ? curr : prev)
RECURSIVE WorstScenario(_, _)
WorstScenario(results, i) ==
  IF i = 1 THEN results[1]
  ELSE LET prev == WorstScenario(results, i - 1)
       IN IF NLt(results[i].totalPnl, prev.totalPnl) THEN results[i] ELSE prev

\* Math.max(0, (combinedPnl - worst.totalPnl) * SCENARIO_PENALTY_WEIGHT)
ScenarioPenalty(combinedPnl, results) ==
  NMax(NFin(0),
       NMul(NSub(combinedPnl, WorstScenario(results, Len(results)).totalPnl),
            SCENARIO_PENALTY_WEIGHT * 8))

(***************************************************************************)
(* State of one optimizeSymbolParameters call.                             *)
(***************************************************************************)
VARIABLES
  pc,               \* idle, baseline, coarse, refine, stress, done, threw
  cur,              \* the locals derived from symbolConfig (CurrentOf)
  range95,          \* rangeStats.range95
  liquidationSides, \* the sides the symbol has rows for in the liquidations table
  grid,             \* the candidate lists
  pos,              \* loop position: li, mi, ti, si (coarse), wi, ci (refinement)
  backtestCache,
  baseline,         \* currentLongBacktest, currentShortBacktest, currentFinalScoreAdjusted
  bestCombination,
  refine,           \* cachedBestScore, cachedBest*Result, bestWindowMs, bestCooldownMs
  diagnostics,
  callLog,          \* the runBacktest calls of the last step, in order
  returned          \* the value optimizeSymbolParameters returned

VARIABLES
  mainPc,           \* main: idle, recommend, symbols, allocate, done, failed
  symbolEntries,    \* getSelectedSymbolEntries(), in order
  processedSymbols, \* generateRecommendations' counter
  recommendations,  \* generateRecommendations' list
  failedSymbol,     \* the symbol whose optimization threw, "" if none
  progress,         \* the percentages emitProgress printed, in hundredths
  aggregate,        \* what generateRecommendations returned, Nil before
  dbClosed          \* main's finally block ran

runVars == << mainPc, symbolEntries, processedSymbols, recommendations, failedSymbol,
              progress, aggregate, dbClosed >>

optVars == << pc, cur, range95, liquidationSides, grid, pos, backtestCache, baseline,
              bestCombination, refine, diagnostics, callLog, returned >>

\* every side simulated as if it had rows
SideResults_AnySide(side, results) == results

\* lines 2395-2415: a side without rows in the liquidations table returns the
\* zero result from every backtest, whatever the parameters
SideResults(side, results) ==
  IF side \in liquidationSides THEN results ELSE {NoTradesResult}

\* every assignment of a result to the keys in K that are not cached yet
FreshResults(cache, K) ==
  LET missing == K \ DOMAIN cache
      mL == { k \in missing : k[1] = "SELL" }
      mS == { k \in missing : k[1] = "BUY" }
  IN { fL @@ fS : fL \in [mL -> SideResults("SELL", LongResults)],
                  fS \in [mS -> SideResults("BUY", ShortResults)] }

(***************************************************************************)
(* State of backtestSymbol runs on one symbol (SpecSim).                   *)
(***************************************************************************)
VARIABLES
  simPc,               \* idle, events, tail, eod, stats, returned
  simArgs,             \* the arguments and options of the call, Nil when idle
  priceDataCache,      \* the Map of getCachedHistoricalPrices
  liquidations,        \* the rows of the side, ordered by event_time
  allPrices,           \* the bars the run walks
  eventIndex,          \* i of the event loop, from 1
  priceIndex,          \* from 1
  activePositions,
  completedTrades,     \* the ledger
  totalPnl,
  lastEntryTime,
  lastHunterEntryTime,
  entryLog,            \* the entries of the run: event index, time, window volume
  gateLog,             \* per processed event: blocked, nofill, limit or market
  simResult,           \* what backtestSymbol returned, Nil before
  previousRun          \* side, entryLog and result of the run before, Nil if none

\* calculateRiskMetrics and the statistics of backtestSymbol on a given ledger
VARIABLES
  riskTrades,          \* the ledger handed in
  riskResult           \* the statistics returned, Nil before

simVars == << simPc, simArgs, priceDataCache, liquidations, allPrices, eventIndex,
              priceIndex, activePositions, completedTrades, totalPnl, lastEntryTime,
              lastHunterEntryTime, entryLog, gateLog, simResult, previousRun >>

riskVars == << riskTrades, riskResult >>

\* one call of a candidate generator: its arguments and what it returned
VARIABLES genArgs, genResult

genVars == << genArgs, genResult >>

(***************************************************************************)
(* State of the optimizer service (src/unnamed/part_004).                  *)
(***************************************************************************)
VARIABLES
  jobs,             \* the jobs Map: jobId -> the job object stored under it
  job,              \* runOptimization's local `job` of each run, Nil before the run
  shared,           \* the ids whose Map entry and local `job` are one object
  jobsFile,         \* data/optimizer-jobs.json: Nil when absent, else the persisted Map
  resultsFile,      \* optimization-results.json exists
  proc,             \* each run: its position, timer, poll and optimizer process
  cancelAccepted,   \* the ids for which cancelJob returned true while running
  resetCleared      \* the ids the Map held when resetOptimizerState ran

jobVars == << jobs, job, shared, jobsFile, resultsFile, proc, cancelAccepted, resetCleared >>

RejectionReasons ==
  { "invalidMargin", "invalidTradeSize", "invalidMaxPositions", "slotDepth", "tierLimit",
    "missingLongSide", "missingShortSide", "profitFactor", "stopRate",
    "liquidationSafety", "riskReward", "winRate", "nonFiniteScore" }

\* lines 1276-1302
NewDiagnostics ==
  [ rejections |-> [r \in RejectionReasons |-> 0],
    combinationsEvaluated |-> 0, combinationsAccepted |-> 0,
    backtests |-> [executed |-> 0, cacheHits |-> 0],
    scenariosEvaluated |-> 0, tierAdjustments |-> 0 ]

Count(diag, reasons) ==
  [diag EXCEPT !.rejections =
     [r \in RejectionReasons |-> @[r] + (IF r \in reasons THEN 1 ELSE 0)]]

Machine(cache, diag) ==
  [ cache |-> cache, log |-> <<>>,
    executed |-> diag.backtests.executed, cacheHits |-> diag.backtests.cacheHits ]

WithBacktests(diag, m) ==
  [diag EXCEPT !.backtests = [executed |-> m.executed, cacheHits |-> m.cacheHits]]

OptInit ==
  /\ pc = "idle"
  /\ cur = Nil
  /\ range95 = 0
  /\ liquidationSides = {}
  /\ grid = Nil
  /\ pos = [li |-> 1, mi |-> 1, ti |-> 1, si |-> 1, wi |-> 1, ci |-> 1]
  /\ backtestCache = NoOverrides
  /\ baseline = Nil
  /\ bestCombination = Nil
  /\ refine = Nil
  /\ diagnostics = NewDiagnostics
  /\ callLog = <<>>
  /\ returned = Nil

\* lines 1261-1400: the locals and the candidate grids
GenerateCandidates ==
  /\ pc = "idle"
  /\ \E symbolConfig \in SymbolConfigs, r \in Range95Values, g \in CandidateGrids,
        sides \in TableSides :
       \* lines 1350-1355: without thresholds the two lists are the current values
       /\ symbolConfig.useThreshold
            \/ /\ g.timeWindow = << CurrentOf(symbolConfig).currentTimeWindowMs >>
               /\ g.cooldown = << CurrentOf(symbolConfig).currentCooldownMs >>
       /\ cur' = CurrentOf(symbolConfig)
       /\ range95' = r
       /\ liquidationSides' = sides
       /\ grid' = g
  /\ pc' = "baseline"
  /\ callLog' = <<>>
  /\ UNCHANGED << pos, backtestCache, baseline, bestCombination, refine, diagnostics,
                  returned >>
  /\ UNCHANGED << runVars, simVars, riskVars, genVars, jobVars >>

\* lines 1450-1538: the current configuration is simulated and seeded as best
Baseline ==
  /\ pc = "baseline"
  /\ LET argsL == Args("SELL", Max(1, cur.currentLongThreshold), cur.longBasePositions,
                       cur.baseTradeSize, cur.leverageCurrent, cur.currentTp,
                       cur.currentSl, NoOverrides)
         argsS == Args("BUY", Max(1, cur.currentShortThreshold), cur.shortBasePositions,
                       cur.baseShortTradeSize, cur.leverageCurrent, cur.currentTp,
                       cur.currentSl, NoOverrides)
     IN \E fresh \in FreshResults(backtestCache,
                                  {BacktestKey(cur, argsL), BacktestKey(cur, argsS)}) :
          LET rl == runBacktest(cur, Machine(backtestCache, diagnostics), argsL, fresh)
              rs == runBacktest(cur, rl, argsS, fresh)
              baselineTierLong ==
                calculateMaxPositionsForLeverage(cur.baseTradeSize, cur.leverageCurrent,
                                                 cur.currentMargin)
              baselineTierShort ==
                calculateMaxPositionsForLeverage(cur.baseShortTradeSize,
                                                 cur.leverageCurrent, cur.currentMargin)
              score == currentFinalScoreAdjusted(range95, cur.currentMargin, rl.out, rs.out)
          IN /\ backtestCache' = rs.cache
             /\ callLog' = rs.log
             /\ diagnostics' = WithBacktests(diagnostics, rs)
             /\ baseline' = [ long |-> rl.out, short |-> rs.out,
                              totalPnl |-> NAdd(rl.out.totalPnl, rs.out.totalPnl),
                              finalScore |-> score ]
             /\ bestCombination' =
                  [ totalPnl |-> NAdd(rl.out.totalPnl, rs.out.totalPnl),
                    finalScore |-> score,
                    leverage |-> cur.leverageCurrent,
                    margin |-> cur.currentMargin,
                    tp |-> cur.currentTp,
                    sl |-> cur.currentSl,
                    long |-> [ threshold |-> Max(1, cur.currentLongThreshold),
                               result |-> rl.out,
                               tradeSize |-> cur.baseTradeSize,
                               maxPositions |->
                                 Max(1, Min(cur.longBasePositions,
                                            IF baselineTierLong > 0 THEN baselineTierLong
                                            ELSE cur.longBasePositions)) ],
                    short |-> [ threshold |-> Max(1, cur.currentShortThreshold),
                                result |-> rs.out,
                                tradeSize |-> cur.baseShortTradeSize,
                                maxPositions |->
                                  Max(1, Min(cur.shortBasePositions,
                                             IF baselineTierShort > 0 THEN baselineTierShort
                                             ELSE cur.shortBasePositions)) ],
                    scenarioSummary |-> <<>>,
                    scenarioPenalty |-> NFin(0),
                    cvarPenalty |-> CvarPenalty(rl.out, rs.out) ]
  /\ pc' = "coarse"
  /\ UNCHANGED << cur, range95, liquidationSides, grid, pos, refine, returned >>
  /\ UNCHANGED << runVars, simVars, riskVars, genVars, jobVars >>

(***************************************************************************)
(* Coarse search, lines 1540-1799: one step per (leverage, margin, TP, SL). *)
(***************************************************************************)
Range(seq) == { seq[i] : i \in 1..Len(seq) }

\* lines 1547-1594, evaluated once per (leverage, margin) pair
PairCheck(c, r95, leverage, margin) ==
  LET longTradeSize == c.baseTradeSize
      shortTradeSize == c.baseShortTradeSize
      longMaxPositions == Max(1, margin \div longTradeSize)
      shortMaxPositions == Max(1, margin \div shortTradeSize)
      tierMaxLong == calculateMaxPositionsForLeverage(longTradeSize, leverage, margin)
      tierMaxShort == calculateMaxPositionsForLeverage(shortTradeSize, leverage, margin)
      minSlotsFromVolatility == determineMinDcaSlots(r95)
      requiredLongSlots == Max(c.longBasePositions, minSlotsFromVolatility)
      requiredShortSlots == Max(c.shortBasePositions, minSlotsFromVolatility)
      effectiveLongRequirement == Max(1, Min(requiredLongSlots, tierMaxLong))
      effectiveShortRequirement == Max(1, Min(requiredShortSlots, tierMaxShort))
      allowedLongPositions == Max(1, Min(longMaxPositions, tierMaxLong))
      allowedShortPositions == Max(1, Min(shortMaxPositions, tierMaxShort))
      reject ==
        IF margin <= 0 THEN "invalidMargin"
        ELSE IF longTradeSize <= 0 \/ shortTradeSize <= 0 THEN "invalidTradeSize"
        ELSE IF longMaxPositions <= 0 \/ shortMaxPositions <= 0 THEN "invalidMaxPositions"
        ELSE IF tierMaxLong <= 0 \/ tierMaxShort <= 0 THEN "tierLimit"
        ELSE IF allowedLongPositions < effectiveLongRequirement
                \/ allowedShortPositions < effectiveShortRequirement THEN "slotDepth"
        ELSE "none"
  IN [ reject |-> reject,
       tierAdjusted |-> reject \in {"slotDepth", "none"}
                        /\ (tierMaxLong < requiredLongSlots
                            \/ tierMaxShort < requiredShortSlots),
       allowedLongPositions |-> IF reject = "none" THEN allowedLongPositions ELSE 0,
       allowedShortPositions |-> IF reject = "none" THEN allowedShortPositions ELSE 0 ]

NextPair(g, p) ==
  IF p.mi < Len(g.margin) THEN [p EXCEPT !.mi = @ + 1, !.ti = 1, !.si = 1]
  ELSE [p EXCEPT !.li = @ + 1, !.mi = 1, !.ti = 1, !.si = 1]

NextCombination(g, p) ==
  IF p.si < Len(g.sl) THEN [p EXCEPT !.si = @ + 1]
  ELSE IF p.ti < Len(g.tp) THEN [p EXCEPT !.ti = @ + 1, !.si = 1]
  ELSE NextPair(g, p)

SideParams(side, c, pair, leverage, tp, sl) ==
  [ side |-> side,
    maxPositions |-> IF side = "SELL" THEN pair.allowedLongPositions
                     ELSE pair.allowedShortPositions,
    tradeSize |-> IF side = "SELL" THEN c.baseTradeSize ELSE c.baseShortTradeSize,
    leverage |-> leverage, tp |-> tp, sl |-> sl,
    minAllowed |-> 0 ]

\* every key one evaluation of the combination can ask runBacktest for
CoarseKeys(c, g, pair, leverage, tp, sl) ==
  { BacktestKey(c, Args(p.side, Max(1, t), p.maxPositions, p.tradeSize, leverage, tp, sl, ov)) :
      p \in { SideParams("SELL", c, pair, leverage, tp, sl),
              SideParams("BUY", c, pair, leverage, tp, sl) },
      t \in Range(g.longThreshold) \cup Range(g.shortThreshold),
      ov \in {NoOverrides} \cup { scenarioProfiles[i].overrides : i \in 1..Len(scenarioProfiles) } }

\* lines 1596-1638: the threshold sweeps of the two sides
SweepBothSides(c, g, m0, fresh, pair, leverage, tp, sl) ==
  LET sweepL == SweepThresholds(c, m0, fresh, SideParams("SELL", c, pair, leverage, tp, sl),
                                g.longThreshold, 1, Nil)
      sweepS == SweepThresholds(c, sweepL.m, fresh,
                                SideParams("BUY", c, pair, leverage, tp, sl),
                                g.shortThreshold, 1, Nil)
  IN [ m |-> sweepS.m, long |-> sweepL.bestSide, short |-> sweepS.bestSide ]

\* lines 1683-1722: the scores of a combination before the stress scenarios
CombinationMetrics(r95, margin, L, S) ==
  LET combinedPnl == NAdd(L.totalPnl, S.totalPnl)
      combinedDrawdown == CombinedDrawdown(L, S)
      cvarPenalty ==
        NMul(NMax(NFin(0), NAbs(NAdd(OrZero(L.cvar), OrZero(S.cvar)))),
             CVAR_PENALTY_WEIGHT * 4)
      finalScore ==
        NSub(WeightedScore(combinedPnl, CombinedSharpeSum(L, S), combinedDrawdown),
             cvarPenalty)
      volatilityPenalty == VolatilityPenalty(r95, combinedDrawdown, margin, combinedPnl)
  IN [ combinedPnl |-> combinedPnl, cvarPenalty |-> cvarPenalty,
       finalScore |-> finalScore,
       adjustedScore |-> NSub(finalScore, NFin(volatilityPenalty)) ]

\* the outcome of a combination that is dropped: the counters it increments
Dropped(best, m, reasons, evaluated) ==
  [ m |-> m, reasons |-> reasons, evaluated |-> evaluated, scenarios |-> 0,
    accepted |-> FALSE, best |-> best ]

\* lines 1724-1795: the stress penalty is subtracted and the result compared
\* with the running best
StressAndCompare(best, leverage, margin, tp, sl, sides, metrics, scen) ==
  LET scenarioPenalty == IF Len(scen.results) > 0
                         THEN ScenarioPenalty(metrics.combinedPnl, scen.results)
                         ELSE NFin(0)
      scenarioAdjustedScore == NSub(metrics.adjustedScore, scenarioPenalty)
  IN IF NGt(scenarioAdjustedScore, best.finalScore)
       THEN [ m |-> scen.m, reasons |-> {}, evaluated |-> 1,
              scenarios |-> Len(scen.results), accepted |-> TRUE,
              best |-> [ totalPnl |-> metrics.combinedPnl,
                         finalScore |-> scenarioAdjustedScore,
                         leverage |-> leverage, margin |-> margin,
                         tp |-> tp, sl |-> sl,
                         long |-> sides.long, short |-> sides.short,
                         scenarioPenalty |-> scenarioPenalty,
                         scenarioSummary |-> scen.results,
                         cvarPenalty |-> metrics.cvarPenalty ] ]
     ELSE [ m |-> scen.m, reasons |-> {}, evaluated |-> 1,
            scenarios |-> Len(scen.results), accepted |-> FALSE, best |-> best ]

\* lines 1640-1722: the feasibility filters and the two finite checks
FilterCombination(c, best, fresh, leverage, margin, tp, sl, sides, rejections, metrics) ==
  IF rejections # {} THEN Dropped(best, sides.m, rejections, 0)
  ELSE IF ~IsFinite(metrics.finalScore) THEN Dropped(best, sides.m, {"nonFiniteScore"}, 0)
  ELSE IF ~IsFinite(metrics.adjustedScore)
    THEN Dropped(best, sides.m, {"nonFiniteScore"}, 1)
  ELSE StressAndCompare(best, leverage, margin, tp, sl, sides, metrics,
                        IF ENABLE_SCENARIOS /\ Len(scenarioProfiles) > 0
                          THEN RunScenarios(c, sides.m, fresh, sides.long, sides.short,
                                            leverage, tp, sl, NoOverrides)
                          ELSE [m |-> sides.m, results |-> <<>>])

\* lines 1632-1638
RequireBothSides(c, r95, best, fresh, leverage, margin, tp, sl, sides) ==
  IF IsNil(sides.long) \/ IsNil(sides.short)
    THEN Dropped(best, sides.m,
                 (IF IsNil(sides.long) THEN {"missingLongSide"} ELSE {})
                 \cup (IF IsNil(sides.short) THEN {"missingShortSide"} ELSE {}), 0)
  ELSE FilterCombination(c, best, fresh, leverage, margin, tp, sl, sides,
                         FeasibilityRejections(sides.long.result, sides.short.result,
                                               leverage, tp, sl),
                         CombinationMetrics(r95, margin, sides.long.result,
                                            sides.short.result))

\* lines 1596-1795 for one combination: the machine after its runBacktest
\* calls, the rejection counters it increments, and the best combination after it
EvaluateCombination(c, r95, g, best, m0, fresh, pair, leverage, margin, tp, sl) ==
  RequireBothSides(c, r95, best, fresh, leverage, margin, tp, sl,
                   SweepBothSides(c, g, m0, fresh, pair, leverage, tp, sl))

CoarseStep ==
  /\ pc = "coarse"
  /\ pos.li <= Len(grid.leverage)
  /\ LET leverage == grid.leverage[pos.li]
         margin == grid.margin[pos.mi]
         tp == grid.tp[pos.ti]
         sl == grid.sl[pos.si]
         pair == PairCheck(cur, range95, leverage, margin)
         pairStart == pos.ti = 1 /\ pos.si = 1
         adjusted == [diagnostics EXCEPT !.tierAdjustments =
                        @ + (IF pairStart /\ pair.tierAdjusted THEN 1 ELSE 0)]
     IN IF pair.reject # "none"
          THEN /\ diagnostics' = Count(adjusted, {pair.reject})
               /\ pos' = NextPair(grid, pos)
               /\ callLog' = <<>>
               /\ UNCHANGED << backtestCache, bestCombination >>
          ELSE \E fresh \in FreshResults(backtestCache,
                                         CoarseKeys(cur, grid, pair, leverage, tp, sl)) :
                 \E o \in {EvaluateCombination(cur, range95, grid, bestCombination,
                                                Machine(backtestCache, adjusted), fresh,
                                                pair, leverage, margin, tp, sl)} :
                    /\ backtestCache' = o.m.cache
                    /\ callLog' = o.m.log
                    /\ bestCombination' = o.best
                    /\ diagnostics' =
                         [ WithBacktests(Count(adjusted, o.reasons), o.m) EXCEPT
                             !.combinationsEvaluated = @ + o.evaluated,
                             !.combinationsAccepted = @ + (IF o.accepted THEN 1 ELSE 0),
                             !.scenariosEvaluated = @ + o.scenarios ]
                    /\ pos' = NextCombination(grid, pos)
  /\ UNCHANGED << pc, cur, range95, liquidationSides, grid, baseline, refine, returned >>
  /\ UNCHANGED << runVars, simVars, riskVars, genVars, jobVars >>

\* lines 1801-1805
EnterRefinement ==
  /\ pc = "coarse"
  /\ pos.li > Len(grid.leverage)
  /\ refine' = [ wi |-> 1, ci |-> 1,
                 bestWindowMs |-> cur.currentTimeWindowMs,
                 bestCooldownMs |-> cur.currentCooldownMs,
                 cachedBestScore |-> bestCombination.finalScore,
                 cachedBestLongResult |-> bestCombination.long.result,
                 cachedBestShortResult |-> bestCombination.short.result ]
  /\ pc' = IF cur.thresholdEnabled THEN "refine" ELSE "stress"
  /\ callLog' = <<>>
  /\ UNCHANGED << cur, range95, liquidationSides, grid, pos, backtestCache, baseline,
                  bestCombination, diagnostics, returned >>
  /\ UNCHANGED << runVars, simVars, riskVars, genVars, jobVars >>

\* lines 1807-1849: one (windowMs, cooldownMs) pair of the refinement loops
RefineStep ==
  /\ pc = "refine"
  /\ refine.wi <= Len(grid.timeWindow)
  /\ LET windowMs == grid.timeWindow[refine.wi]
         cooldownMs == grid.cooldown[refine.ci]
         overrides == [windowMs |-> windowMs, cooldownMs |-> cooldownMs]
         best == bestCombination
         argsL == Args("SELL", Max(1, best.long.threshold), best.long.maxPositions,
                       best.long.tradeSize, best.leverage, best.tp, best.sl, overrides)
         argsS == Args("BUY", Max(1, best.short.threshold), best.short.maxPositions,
                       best.short.tradeSize, best.leverage, best.tp, best.sl, overrides)
     IN \E fresh \in FreshResults(backtestCache,
                                  {BacktestKey(cur, argsL), BacktestKey(cur, argsS)}) :
          LET rl == runBacktest(cur, Machine(backtestCache, diagnostics), argsL, fresh)
              rs == runBacktest(cur, rl, argsS, fresh)
              metrics == calculateCombinationScore(rl.out, rs.out)
              metricsPenalty == VolatilityPenalty(range95, metrics.combinedDrawdown,
                                                  best.margin, metrics.combinedPnl)
              metricsScore == NSub(metrics.finalScore, NFin(metricsPenalty))
              \* the 1e-6 of line 1836 is below the resolution of the scores here
              improved == NGt(metricsScore, refine.cachedBestScore)
              last == refine.ci = Len(grid.cooldown)
              stepped == [refine EXCEPT !.ci = IF last THEN 1 ELSE @ + 1,
                                        !.wi = IF last THEN @ + 1 ELSE @]
          IN /\ backtestCache' = rs.cache
             /\ callLog' = rs.log
             /\ diagnostics' = WithBacktests(diagnostics, rs)
             /\ refine' = IF improved
                          THEN [stepped EXCEPT !.cachedBestScore = metricsScore,
                                               !.cachedBestLongResult = rl.out,
                                               !.cachedBestShortResult = rs.out,
                                               !.bestWindowMs = windowMs,
                                               !.bestCooldownMs = cooldownMs]
                          ELSE stepped
             /\ bestCombination' = IF improved
                                   THEN [best EXCEPT !.totalPnl = metrics.combinedPnl]
                                   ELSE best
  /\ UNCHANGED << pc, cur, range95, liquidationSides, grid, pos, baseline, returned >>
  /\ UNCHANGED << runVars, simVars, riskVars, genVars, jobVars >>

\* the refinement loop handing control back to the coarse search
LeaveRefinement_BackToCoarse ==
  /\ pc = "refine"
  /\ refine.wi > Len(grid.timeWindow)
  /\ pc' = "coarse"
  /\ callLog' = <<>>
  /\ UNCHANGED << cur, range95, liquidationSides, grid, pos, backtestCache, baseline,
                  bestCombination, refine, diagnostics, returned >>
  /\ UNCHANGED << runVars, simVars, riskVars, genVars, jobVars >>

LeaveRefinement ==
  /\ pc = "refine"
  /\ refine.wi > Len(grid.timeWindow)
  /\ pc' = "stress"
  /\ callLog' = <<>>
  /\ UNCHANGED << cur, range95, liquidationSides, grid, pos, backtestCache, baseline,
                  bestCombination, refine, diagnostics, returned >>
  /\ UNCHANGED << runVars, simVars, riskVars, genVars, jobVars >>

\* the write-back also resetting the thresholds
RefinedBest_ResetThresholds(best, r) ==
  [best EXCEPT !.finalScore = r.cachedBestScore,
               !.long = [@ EXCEPT !.result = r.cachedBestLongResult, !.threshold = 1],
               !.short = [@ EXCEPT !.result = r.cachedBestShortResult, !.threshold = 1]]

\* lines 1852-1856: the refinement's winner is written back
RefinedBest(best, r) ==
  [best EXCEPT !.finalScore = r.cachedBestScore,
               !.long.result = r.cachedBestLongResult,
               !.short.result = r.cachedBestShortResult]

\* lines 1858-1921: the refined best rescored with the final stress penalty
FinalCombination(r95, best, finalMetrics, scen) ==
  LET scenarioPenalty == IF Len(scen.results) > 0
                         THEN ScenarioPenalty(finalMetrics.combinedPnl, scen.results)
                         ELSE best.scenarioPenalty
      finalPenalty == VolatilityPenalty(r95, finalMetrics.combinedDrawdown, best.margin,
                                        finalMetrics.combinedPnl)
      finalScoreWithPenalty == NSub(finalMetrics.finalScore, NFin(finalPenalty))
      finalCvarPenalty == CvarPenalty(best.long.result, best.short.result)
      finalScenarioAdjusted ==
        NSub(NSub(finalScoreWithPenalty, OrZero(scenarioPenalty)), finalCvarPenalty)
  IN [best EXCEPT
        !.scenarioPenalty = scenarioPenalty,
        !.scenarioSummary = IF Len(scen.results) > 0 THEN scen.results ELSE @,
        !.cvarPenalty = finalCvarPenalty,
        !.totalPnl = finalMetrics.combinedPnl,
        !.finalScore = NMax(@, finalScenarioAdjusted)]

\* line 1454: 1 / spanDays, for a symbol whose data spans one day
dailyFactor == 1

\* parseFloat(v.toFixed(2)) of a value with at most two decimals
ParseFixed2(v) == v

\* lines 1935-1949: the fields of optimizedSymbolConfig taken from the best
\* combination
optimizedSymbolConfig(c, final, r) ==
  [ maxPositionMarginUSDT |-> ParseFixed2(final.margin),
    leverage |-> final.leverage,
    tpPercent |-> ParseFixed2(final.tp),
    slPercent |-> ParseFixed2(final.sl),
    thresholdTimeWindow |-> OrDefault(r.bestWindowMs, c.currentTimeWindowMs),
    thresholdCooldown |-> OrDefault(r.bestCooldownMs, c.currentCooldownMs) ]

\* lines 1923-1926, 2036-2078: the object optimizeSymbolParameters returns
Recommendation(c, base, r, final) ==
  [ current |-> [ leverage |-> c.leverageCurrent, tp |-> c.currentTp,
                  sl |-> c.currentSl,
                  margin |-> c.currentMargin,
                  thresholdTimeWindow |-> c.currentTimeWindowMs,
                  thresholdCooldown |-> c.currentCooldownMs,
                  performance |-> [ long |-> base.long, short |-> base.short,
                                    totalPnl |-> base.totalPnl ] ],
    optimized |-> [ config |-> optimizedSymbolConfig(c, final, r),
                    long |-> final.long, short |-> final.short,
                    leverage |-> final.leverage,
                    margin |-> final.margin,
                    thresholdTimeWindow |-> r.bestWindowMs,
                    thresholdCooldown |-> r.bestCooldownMs,
                    tp |-> final.tp, sl |-> final.sl,
                    totalPnl |-> final.totalPnl,
                    finalScore |-> final.finalScore,
                    cvarPenalty |-> OrZero(final.cvarPenalty),
                    scenarioPenalty |-> OrZero(final.scenarioPenalty),
                    scenarios |-> final.scenarioSummary ],
    improvements |->
      [ long |-> NMul(NSub(final.long.result.totalPnl, base.long.totalPnl), dailyFactor),
        short |-> NMul(NSub(final.short.result.totalPnl, base.short.totalPnl),
                       dailyFactor),
        totalDaily |-> NSub(NMul(final.totalPnl, dailyFactor),
                            NMul(base.totalPnl, dailyFactor)) ] ]

FinalScenarioKeys(c, best, extra) ==
  { BacktestKey(c, Args("SELL", best.long.threshold, best.long.maxPositions,
                        best.long.tradeSize, best.leverage, best.tp, best.sl, extra)),
    BacktestKey(c, Args("BUY", best.short.threshold, best.short.maxPositions,
                        best.short.tradeSize, best.leverage, best.tp, best.sl, extra)) }

\* lines 1852-2078: the refined best is stress-tested, rescored and returned
FinalStressTest ==
  /\ pc = "stress"
  /\ \E best \in {RefinedBest(bestCombination, refine)},
        extra \in {[windowMs |-> refine.bestWindowMs,
                    cooldownMs |-> refine.bestCooldownMs]} :
       \E fresh \in FreshResults(backtestCache, FinalScenarioKeys(cur, best, extra)) :
         \E scen \in {IF ENABLE_SCENARIOS /\ Len(scenarioProfiles) > 0
                      THEN RunScenarios(cur, Machine(backtestCache, diagnostics), fresh,
                                        best.long, best.short, best.leverage, best.tp,
                                        best.sl, extra)
                      ELSE [m |-> Machine(backtestCache, diagnostics),
                            results |-> <<>>]} :
           \E final \in {FinalCombination(range95, best,
                                          calculateCombinationScore(best.long.result,
                                                                    best.short.result),
                                          scen)} :
             /\ backtestCache' = scen.m.cache
             /\ callLog' = scen.m.log
             /\ diagnostics' = WithBacktests(diagnostics, scen.m)
             /\ bestCombination' = final
             /\ returned' = Recommendation(cur, baseline, refine, final)
  /\ pc' = "done"
  /\ UNCHANGED << cur, range95, liquidationSides, grid, pos, baseline, refine >>
  /\ UNCHANGED << runVars, simVars, riskVars, genVars, jobVars >>

\* an awaited backtest rejects (lines 1429-1444 sit in no try block, nor does
\* any loop of lines 1450-1905): the exception leaves optimizeSymbolParameters
Throw ==
  /\ pc \in {"baseline", "coarse", "refine", "stress"}
  /\ pc' = "threw"
  /\ callLog' = <<>>
  /\ UNCHANGED << cur, range95, liquidationSides, grid, pos, backtestCache, baseline,
                  bestCombination, refine, diagnostics, returned >>
  /\ UNCHANGED << runVars, simVars, riskVars, genVars, jobVars >>

vars == << pc, cur, range95, liquidationSides, grid, pos, backtestCache, baseline,
          bestCombination, refine, diagnostics, callLog, returned, mainPc, symbolEntries, processedSymbols,
          recommendations, failedSymbol, progress, aggregate, dbClosed, simPc, simArgs,
          priceDataCache, liquidations, allPrices, eventIndex, priceIndex,
          activePositions, completedTrades, totalPnl, lastEntryTime,
          lastHunterEntryTime, entryLog, gateLog, simResult, previousRun, riskTrades,
          riskResult, genArgs, genResult, jobs, job, shared, jobsFile, resultsFile, proc,
          cancelAccepted, resetCleared >>

SimIdle ==
  /\ simPc = "idle"
  /\ simArgs = Nil
  /\ priceDataCache = [k \in {} |-> <<>>]
  /\ liquidations = <<>>
  /\ allPrices = <<>>
  /\ eventIndex = 1
  /\ priceIndex = 1
  /\ activePositions = <<>>
  /\ completedTrades = <<>>
  /\ totalPnl = 0
  /\ lastEntryTime = NInf
  /\ lastHunterEntryTime = NInf
  /\ entryLog = <<>>
  /\ gateLog = <<>>
  /\ simResult = Nil
  /\ previousRun = Nil

RiskIdle ==
  /\ riskTrades = <<>>
  /\ riskResult = Nil

GenIdle ==
  /\ genArgs = Nil
  /\ genResult = Nil

\* the ids generateJobId hands out (line 97: unique by time and random suffix)
JobIds == {"opt_1", "opt_2"}

\* a run that has not started: no timer, no poll, no optimizer process
NoProcess == [pc |-> "none", timeout |-> FALSE, poll |-> FALSE, child |-> "none", out |-> 0]

\* lines 44-45: an empty Map, hydrated from a jobs file that does not exist
JobIdle ==
  /\ jobs = [k \in {} |-> Nil]
  /\ job = [k \in JobIds |-> Nil]
  /\ shared = {}
  /\ jobsFile = Nil
  /\ resultsFile = FALSE
  /\ proc = [k \in JobIds |-> NoProcess]
  /\ cancelAccepted = {}
  /\ resetCleared = {}

RunIdle ==
  /\ mainPc = "idle"
  /\ symbolEntries = <<>>
  /\ processedSymbols = 0
  /\ recommendations = <<>>
  /\ failedSymbol = ""
  /\ progress = <<>>
  /\ aggregate = Nil
  /\ dbClosed = FALSE

Init == OptInit /\ RunIdle /\ SimIdle /\ RiskIdle /\ GenIdle /\ JobIdle

Next ==
  \/ GenerateCandidates
  \/ Baseline
  \/ CoarseStep
  \/ EnterRefinement
  \/ RefineStep
  \/ LeaveRefinement
  \/ FinalStressTest
  \/ Throw

Spec == Init /\ [][Next]_vars

(***************************************************************************)
(* The run: main (lines 3435-3517) and the per-symbol loop of              *)
(* generateRecommendations (lines 2708-2852).  What one call of            *)
(* optimizeSymbolParameters does is Spec above; here it returns a          *)
(* recommendation or throws.                                               *)
(***************************************************************************)
MaxSymbols == 3

Symbols == {"BTCUSDT", "ETHUSDT", "SOLUSDT"}

SymbolLists ==
  { q \in UNION { [1..n -> Symbols] : n \in 0..MaxSymbols } :
      \A i, j \in 1..Len(q) : i # j => q[i] # q[j] }

\* lines 601-612, for a finite percent: the clamped value that is printed
emitProgress(log, percent) == Append(log, Min(10000, Max(0, percent)))

RECURSIVE EmitAll(_, _)
EmitAll(log, percents) ==
  IF percents = <<>> THEN log
  ELSE EmitAll(emitProgress(log, Head(percents)), Tail(percents))

progressStart == 5500

progressEnd == 8800

RunInit ==
  /\ mainPc = "idle"
  /\ symbolEntries \in SymbolLists
  /\ processedSymbols = 0
  /\ recommendations = <<>>
  /\ failedSymbol = ""
  /\ progress = <<>>
  /\ aggregate = Nil
  /\ dbClosed = FALSE

\* lines 3436-3483: the snapshot and the analyses that precede the optimization
MainAnalyses ==
  /\ mainPc = "idle"
  /\ progress' = EmitAll(progress, << 0, 500, 1000, 1800, 2400, 2800, 3200, 3600, 4000,
                                      4500, 5000 >>)
  /\ mainPc' = "recommend"
  /\ UNCHANGED << symbolEntries, processedSymbols, recommendations, failedSymbol,
                  aggregate, dbClosed >>
  /\ UNCHANGED << optVars, simVars, riskVars, genVars, jobVars >>

\* lines 2708-2738: with no symbol selected the empty aggregate is returned
BeginRecommendations ==
  /\ mainPc = "recommend"
  /\ IF Len(symbolEntries) = 0
       THEN /\ progress' = emitProgress(progress, progressEnd)
            /\ aggregate' = [ recommendations |-> <<>>, recommendedGlobalMax |-> 0 ]
            /\ mainPc' = "allocate"
       ELSE /\ mainPc' = "symbols"
            /\ UNCHANGED << progress, aggregate >>
  /\ UNCHANGED << symbolEntries, processedSymbols, recommendations, failedSymbol,
                  dbClosed >>
  /\ UNCHANGED << optVars, simVars, riskVars, genVars, jobVars >>

\* the share of the symbols done, on the whole scale
symbolProgress_FromZero(processed, total) == (processed * progressEnd) \div total

\* lines 2742-2743
symbolProgress(processed, total) ==
  progressStart + (processed * (progressEnd - progressStart)) \div total

\* lines 2740-2824: one iteration whose optimizeSymbolParameters call returns
OptimizeSymbolReturns ==
  /\ mainPc = "symbols"
  /\ processedSymbols < Len(symbolEntries)
  /\ \E leverage \in LeverageValues :
       recommendations' =
         Append(recommendations, [ symbol |-> symbolEntries[processedSymbols + 1],
                                   optimizedLeverage |-> leverage ])
  /\ processedSymbols' = processedSymbols + 1
  /\ progress' = emitProgress(progress,
                              symbolProgress(processedSymbols + 1, Len(symbolEntries)))
  /\ UNCHANGED << mainPc, symbolEntries, failedSymbol, aggregate, dbClosed >>
  /\ UNCHANGED << optVars, simVars, riskVars, genVars, jobVars >>

\* the same iteration when the call throws: nothing between line 2740 and
\* main's catch (line 3510) handles it, so the loop, the aggregate and the
\* rest of main are skipped and the finally block closes the database
OptimizeSymbolThrows ==
  /\ mainPc = "symbols"
  /\ processedSymbols < Len(symbolEntries)
  /\ processedSymbols' = processedSymbols + 1
  /\ progress' = emitProgress(progress,
                              symbolProgress(processedSymbols + 1, Len(symbolEntries)))
  /\ failedSymbol' = symbolEntries[processedSymbols + 1]
  /\ mainPc' = "failed"
  /\ dbClosed' = TRUE
  /\ UNCHANGED << symbolEntries, recommendations, aggregate >>
  /\ UNCHANGED << optVars, simVars, riskVars, genVars, jobVars >>

\* lines 2826-2851
EndRecommendations ==
  /\ mainPc = "symbols"
  /\ processedSymbols = Len(symbolEntries)
  /\ progress' = emitProgress(progress, progressEnd)
  /\ aggregate' = [ recommendations |-> recommendations,
                    recommendedGlobalMax |-> Max(1, Len(recommendations)) ]
  /\ mainPc' = "allocate"
  /\ UNCHANGED << symbolEntries, processedSymbols, recommendations, failedSymbol,
                  dbClosed >>
  /\ UNCHANGED << optVars, simVars, riskVars, genVars, jobVars >>

\* lines 3486-3514
MainFinish ==
  /\ mainPc = "allocate"
  /\ progress' = EmitAll(progress, << 9000, 9400, 9700, 9800, 9900, 10000 >>)
  /\ mainPc' = "done"
  /\ dbClosed' = TRUE
  /\ UNCHANGED << symbolEntries, processedSymbols, recommendations, failedSymbol,
                  aggregate >>
  /\ UNCHANGED << optVars, simVars, riskVars, genVars, jobVars >>

NextRun ==
  \/ MainAnalyses
  \/ BeginRecommendations
  \/ OptimizeSymbolReturns
  \/ OptimizeSymbolThrows
  \/ EndRecommendations
  \/ MainFinish

InitRun == OptInit /\ RunInit /\ SimIdle /\ RiskIdle /\ GenIdle /\ JobIdle

SpecRun == InitRun /\ [][NextRun]_vars

(***************************************************************************)
(* Properties of one optimizeSymbolParameters call (Spec).                 *)
(***************************************************************************)
\* the score of the recommended configuration by the formula that scored the
\* baseline (lines 1453-1477), less its scenario penalty
RecommendedScore ==
  NSub(currentFinalScoreAdjusted(range95, returned.optimized.margin,
                                 returned.optimized.long.result,
                                 returned.optimized.short.result),
       returned.optimized.scenarioPenalty)

\* C1: the configuration finally recommended scores, by the baseline's own
\* formula (weighted score minus volatility, CVaR and scenario penalties), at
\* least what the current configuration scores.  Stated for finite scores.
C1_RecommendedNotWorseThanBaseline ==
  (pc = "done" /\ IsFinite(baseline.finalScore) /\ IsFinite(RecommendedScore))
    => ~NLt(RecommendedScore, baseline.finalScore)

\* the running best was put there by the coarse search
CoarseAccepted == pc = "coarse" /\ diagnostics.combinationsAccepted > 0

\* C2: a combination that replaced the running best in the coarse search has
\* SL < (100 / leverage) * 0.9, TP / SL >= 0.33, combined profit factor >= 1.05
\* and combined win rate >= SL / (TP + SL) + 0.05.
C2_AcceptedIsFeasible ==
  CoarseAccepted =>
    LET b == bestCombination
        L == b.long.result
        S == b.short.result
    IN /\ b.sl * b.leverage < 900
       /\ 100 * b.tp >= 33 * b.sl
       /\ ~NLt(NMul(NAdd(L.profitFactor, S.profitFactor), 100), NFin(210))
       /\ (L.winRate + S.winRate) * (b.tp + b.sl) >= 200 * b.sl + 10 * (b.tp + b.sl)

\* a coarse combination other than the configured TP/SL has been accepted
C2_Witness ==
  /\ CoarseAccepted
  /\ bestCombination.tp = 50
  /\ bestCombination.sl = 5
  /\ bestCombination.leverage = 25

\* the coarse step about to run evaluates a combination that reaches the
\* feasibility filters with SL at or beyond 90% of the liquidation distance
UnsafeCombinationNext ==
  /\ pc = "coarse"
  /\ pos.li <= Len(grid.leverage)
  /\ PairCheck(cur, range95, grid.leverage[pos.li], grid.margin[pos.mi]).reject = "none"
  /\ grid.sl[pos.si] * grid.leverage[pos.li] >= 900

Rejected(reason) == diagnostics.rejections[reason]

\* C3 (as written): a combination that reaches the filters with
\* SL >= (100 / leverage) * 0.9 is rejected and counted under
\* liquidationSafety, whatever its profit factor, stop rate or win rate.
C3_UnsafeCountedAsLiquidation ==
  [][ (UnsafeCombinationNext /\ pc' = "coarse")
        => /\ bestCombination' = bestCombination
           /\ Rejected("liquidationSafety")' = Rejected("liquidationSafety") + 1 ]_vars

\* C3 (amended): such a combination never replaces the running best; it is
\* counted under liquidationSafety exactly when the profit-factor / stop-rate
\* check, which runs first, lets it through, and under that check's reasons
\* otherwise.
C3_UnsafeRejected ==
  [][ (UnsafeCombinationNext /\ pc' = "coarse")
        => /\ bestCombination' = bestCombination
           /\ diagnostics'.combinationsAccepted = diagnostics.combinationsAccepted
           /\ \/ /\ Rejected("liquidationSafety")' = Rejected("liquidationSafety") + 1
                 /\ Rejected("profitFactor")' = Rejected("profitFactor")
                 /\ Rejected("stopRate")' = Rejected("stopRate")
              \/ /\ Rejected("liquidationSafety")' = Rejected("liquidationSafety")
                 /\ \/ Rejected("profitFactor")' = Rejected("profitFactor") + 1
                    \/ Rejected("stopRate")' = Rejected("stopRate") + 1 ]_vars

\* both outcomes have been counted in a run all of whose combinations are unsafe
C3_Witness ==
  /\ pc = "coarse"
  /\ Rejected("liquidationSafety") > 0
  /\ Rejected("profitFactor") > 0
  /\ \A i \in 1..Len(grid.leverage), j \in 1..Len(grid.sl) :
       grid.sl[j] * grid.leverage[i] >= 900

\* C4: no combination whose two sides closed more than 65% of their trades by
\* stop-loss is the running best of the coarse search.
C4_AcceptedStopRateBounded ==
  CoarseAccepted =>
    LET L == bestCombination.long.result
        S == bestCombination.short.result
    IN 100 * (L.ledgerSL + S.ledgerSL) <= 65 * (L.totalTrades + S.totalTrades)

\* C5: the finalScore of the running best is finite at every point, the
\* baseline seed included.
C5_BestScoreFinite ==
  ~IsNil(bestCombination) => IsFinite(bestCombination.finalScore)

\* everything a simulation depends on: the ten values of the cache key and the
\* three fill-model overrides (defaults of lines 2379-2381)
SimulationInputs(a) ==
  BacktestKey(cur, a)
    \o << Ov(a.overrides, "slippageMultiplier", 100),
          Ov(a.overrides, "limitFillRate", LIMIT_FILL_RATE),
          Ov(a.overrides, "marketFallbackRate", MARKET_FALLBACK_RATE) >>

\* C6: runBacktest returns a cached result only to a call whose full tuple of
\* simulation inputs equals that of the call that produced the result.
C6_CacheHitSameInputs ==
  \A i \in 1..Len(callLog) :
    callLog[i].hit =>
      SimulationInputs(callLog[i].args) = SimulationInputs(callLog[i].producer)

\* the calls of the last step hold, for the side, a result simulated with the
\* profile's slippage multiplier, fill rate and fallback rate
SimulatedUnder(profile, side) ==
  \E i \in 1..Len(callLog) :
    /\ callLog[i].args.side = side
    /\ callLog[i].sim.slippageMultiplier = profile.overrides.slippageMultiplier
    /\ callLog[i].sim.limitFillRate = profile.overrides.limitFillRate
    /\ callLog[i].sim.marketFallbackRate = profile.overrides.marketFallbackRate

\* C7: for the winning candidate each stress profile is simulated on both
\* sides with that profile's slippage multiplier, fill rate and fallback rate,
\* and the scenario penalty is max(0, combined PnL - worst profile's PnL)
\* times the scenario weight.
C7_StressProfilesSimulated ==
  pc = "done" =>
    /\ \A i \in 1..Len(scenarioProfiles) :
         SimulatedUnder(scenarioProfiles[i], "SELL")
         /\ SimulatedUnder(scenarioProfiles[i], "BUY")
    /\ returned.optimized.scenarioPenalty =
         OrZero(ScenarioPenalty(returned.optimized.totalPnl,
                                returned.optimized.scenarios))

StageRank(stage) ==
  CASE stage = "idle" -> 0
    [] stage = "baseline" -> 1
    [] stage = "coarse" -> 2
    [] stage = "refine" -> 3
    [] stage = "stress" -> 4
    [] stage = "done" -> 5
    [] stage = "threw" -> 6

\* a call of the log asks for a stress profile's fill model
ScenarioRequested(log) ==
  \E i \in 1..Len(log) : "slippageMultiplier" \in DOMAIN log[i].args.overrides

C9_ThrowStillReturns ==
  (pc = "threw" /\ ~IsNil(bestCombination)) => ~IsNil(returned)

(***************************************************************************)
(* Properties of the run (SpecRun).                                        *)
(***************************************************************************)
\* C10: a failure on one symbol does not keep the later symbols from being
\* optimized: when the run has ended, every symbol was processed, each one
\* but the failing one has a recommendation, and the aggregate exists.
C10_FailureDoesNotStopRun ==
  (failedSymbol # "" /\ mainPc \in {"failed", "done"}) =>
    /\ processedSymbols = Len(symbolEntries)
    /\ \A i \in 1..Len(symbolEntries) :
         symbolEntries[i] # failedSymbol =>
           \E j \in 1..Len(recommendations) :
             recommendations[j].symbol = symbolEntries[i]
    /\ ~IsNil(aggregate)


(***************************************************************************)
(* backtestSymbol (lines 2372-2705) and calculateRiskMetrics (2323-2369).  *)
(*                                                                         *)
(* Units.  Times are in ms.  Prices are whole ticks and every product of  *)
(* a price with a rate is rounded down to a tick; the rounding is          *)
(* monotone, as IEEE rounding is.  Slippage rates are in 1e-5, fees in     *)
(* 1e-6, money (PnL, commission) in thousandths of a quote unit, the       *)
(* volatility factor, the win rate and the drawdown percent in hundredths. *)
(***************************************************************************)
\* lines 18-24, in 1e-5
EXIT_SLIPPAGE ==
  [TP |-> 100, SL |-> 500, SL_VOLATILE |-> 800, ENTRY_LIMIT |-> 0, ENTRY_MARKET |-> 200]

\* lines 30-36: fees in 1e-6, fills in tenths
COMMISSION == [MAKER_FEE |-> 200, TAKER_FEE |-> 400, AVG_FILLS_PER_TRADE |-> 15]

Abs(x) == IF x < 0 THEN -x ELSE x

\* a >= b on IEEE values
NGe(a, b) == NGt(a, b) \/ (a.k # "nan" /\ a = b)

\* price * (1 + sign * rate), rate in 1e-5
ApplySlippage(price, rate, sign) == (price * (100000 + sign * rate)) \div 100000

\* price * (1 + sign * percent / 100), percent in tenths
ApplyPercent(price, tenths, sign) == (price * (1000 + sign * tenths)) \div 1000

\* lines 2382-2387
entryMarketSlippage(o) == (EXIT_SLIPPAGE.ENTRY_MARKET * o.slippageMultiplier) \div 100

exitSlippageCfg(o) ==
  [ TP |-> (EXIT_SLIPPAGE.TP * o.slippageMultiplier) \div 100,
    SL |-> (EXIT_SLIPPAGE.SL * o.slippageMultiplier) \div 100,
    SL_VOLATILE |-> (EXIT_SLIPPAGE.SL_VOLATILE * o.slippageMultiplier) \div 100 ]

\* lines 2397-2402: the rows of one side; the table is kept in event_time order
RECURSIVE SelectSide(_, _)
SelectSide(rows, side) ==
  IF rows = <<>> THEN <<>>
  ELSE (IF Head(rows).side = side
          THEN << [event_time |-> Head(rows).event_time,
                   volume_usdt |-> Head(rows).volume_usdt, price |-> Head(rows).price] >>
          ELSE <<>>) \o SelectSide(Tail(rows), side)

\* line 2431: the bars of the price data
BarsOfPriceData(priceData) ==
  [ i \in 1..Len(priceData) |->
      [event_time |-> priceData[i].timestamp, price |-> priceData[i].close,
       high |-> priceData[i].high, low |-> priceData[i].low] ]

\* line 2432: the liquidation prices of the symbol, both sides, as bars
BarsOfLiquidations(rows) ==
  [ i \in 1..Len(rows) |->
      [event_time |-> rows[i].event_time, price |-> rows[i].price,
       high |-> rows[i].price, low |-> rows[i].price] ]

\* the window test of line 2601 left out: every earlier event counts
RECURSIVE WindowVolume_AllEvents(_, _, _, _)
WindowVolume_AllEvents(liqs, j, windowStart, currentTime) ==
  IF j < 1 THEN 0
  ELSE liqs[j].volume_usdt + WindowVolume_AllEvents(liqs, j - 1, windowStart, currentTime)

\* lines 2598-2606: the volume of the events up to i inside the window
RECURSIVE WindowVolume(_, _, _, _)
WindowVolume(liqs, j, windowStart, currentTime) ==
  IF j < 1 THEN 0
  ELSE IF liqs[j].event_time >= windowStart /\ liqs[j].event_time <= currentTime
    THEN liqs[j].volume_usdt + WindowVolume(liqs, j - 1, windowStart, currentTime)
  ELSE IF liqs[j].event_time < windowStart THEN 0
  ELSE WindowVolume(liqs, j - 1, windowStart, currentTime)

\* lines 2456-2465: the absolute returns of bars lo+1..hi, in 1e-5, and their
\* number
RECURSIVE SumAbsReturn(_, _, _)
SumAbsReturn(prices, i, hi) ==
  IF i > hi THEN [sum |-> 0, count |-> 0]
  ELSE LET rest == SumAbsReturn(prices, i + 1, hi)
           prev == prices[i - 1].price
           curr == prices[i].price
       IN IF prev > 0
            THEN [sum |-> rest.sum + (Abs(curr - prev) * 100000) \div prev,
                  count |-> rest.count + 1]
            ELSE rest

\* lines 2446-2472, for the bar at index k (from 1); in hundredths
calculateVolatilityFactor(prices, k) ==
  IF Len(prices) < 2 THEN 100
  ELSE LET lo == Max(1, k - 20)
           hi == Min(Len(prices), k)
       IN IF hi - lo + 1 < 2 THEN 100
          ELSE LET r == SumAbsReturn(prices, lo + 1, hi)
               IN IF r.count = 0 THEN 100
                  ELSE Max(50, Min(300, r.sum \div (5 * r.count)))


(***************************************************************************)
(* recordExit and evaluatePositionsOnBar.  m is the pair of completedTrades *)
(* and totalPnl the closures write; a is the call's arguments, cfg its     *)
(* exitSlippageCfg.                                                        *)
(***************************************************************************)
\* the slippage applied in the position's favour
SlippedExitPrice_Favourable(position, exitPrice, exitReason, volatilityFactor, cfg) ==
  IF exitReason = "TP"
    THEN ApplySlippage(exitPrice, cfg.TP, IF position.isLong THEN 1 ELSE -1)
  ELSE IF exitReason = "SL"
    THEN ApplySlippage(exitPrice,
                       IF volatilityFactor > 150 THEN cfg.SL_VOLATILE ELSE cfg.SL,
                       IF position.isLong THEN 1 ELSE -1)
  ELSE exitPrice

\* lines 2476-2489
SlippedExitPrice(position, exitPrice, exitReason, volatilityFactor, cfg) ==
  IF exitReason = "TP"
    THEN ApplySlippage(exitPrice, cfg.TP, IF position.isLong THEN -1 ELSE 1)
  ELSE IF exitReason = "SL"
    THEN ApplySlippage(exitPrice,
                       IF volatilityFactor > 150 THEN cfg.SL_VOLATILE ELSE cfg.SL,
                       IF position.isLong THEN -1 ELSE 1)
  ELSE exitPrice

\* lines 2493-2495; position.size is tradeSize * leverage / entryPrice, held as the
\* notional (in thousandths) per entry price
GrossPnl(position, actualExitPrice) ==
  ((IF position.isLong THEN actualExitPrice - position.entryPrice
                  ELSE position.entryPrice - actualExitPrice) * position.size.notional)
    \div position.size.per

\* lines 2500-2507
TotalCommission(a, exitReason) ==
  LET notional == a.tradeSize * a.leverage * 1000
      entryCommission ==
        (notional * ((COMMISSION.MAKER_FEE * 9 + COMMISSION.TAKER_FEE) \div 10))
          \div 1000000
      exitCommission ==
        IF exitReason = "EOD" THEN (notional * COMMISSION.MAKER_FEE) \div 1000000
                              ELSE (notional * COMMISSION.TAKER_FEE) \div 1000000
  IN ((entryCommission + exitCommission) * COMMISSION.AVG_FILLS_PER_TRADE) \div 10

\* the pnl field of a ledger entry with commission in place of the net figure
NetPnl_Gross(grossPnl, totalCommission) == grossPnl

\* line 2510
NetPnl(grossPnl, totalCommission) == grossPnl - totalCommission

\* lines 2513-2527
LedgerEntry(position, exitPrice, actualExitPrice, grossPnl, totalCommission, exitReason, priceEventTime, volatilityFactor, a) ==
  [ symbol |-> a.symbol,
    side |-> IF position.isLong THEN "LONG" ELSE "SHORT",
    entryPrice |-> position.entryPrice,
    exitPrice |-> actualExitPrice,
    triggerPrice |-> exitPrice,
    slippage |-> Abs(actualExitPrice - exitPrice),
    grossPnl |-> grossPnl,
    commission |-> totalCommission,
    pnl |-> NetPnl(grossPnl, totalCommission),
    exitReason |-> exitReason,
    duration |-> priceEventTime - position.entryTime,
    margin |-> a.tradeSize,
    volatilityFactor |-> IF exitReason = "SL" THEN volatilityFactor ELSE 0 ]

\* lines 2474-2528
recordExit(m, position, exitPrice, exitReason, priceEventTime, volatilityFactor, a, cfg) ==
  LET actualExitPrice ==
        SlippedExitPrice(position, exitPrice, exitReason, volatilityFactor, cfg)
      entry == LedgerEntry(position, exitPrice, actualExitPrice,
                           GrossPnl(position, actualExitPrice),
                           TotalCommission(a, exitReason), exitReason, priceEventTime,
                           volatilityFactor, a)
  IN [ completedTrades |-> Append(m.completedTrades, entry),
       totalPnl |-> m.totalPnl + entry.pnl ]

TpTouched(position, priceBar) ==
  IF position.isLong THEN priceBar.high >= position.tpPrice ELSE priceBar.low <= position.tpPrice

SlTouched(position, priceBar) ==
  IF position.isLong THEN priceBar.low <= position.slPrice ELSE priceBar.high >= position.slPrice

\* lines 2539-2582: the exit of one position on one bar; closerHitsFirst is
\* the draw Math.random() < 0.70
ExitDecision(position, priceBar, closerHitsFirst) ==
  LET tpDistance == Abs(position.tpPrice - position.entryPrice)
      slDistance == Abs(position.slPrice - position.entryPrice)
      sl == [shouldExit |-> TRUE, exitReason |-> "SL", exitPrice |-> position.slPrice]
      tp == [shouldExit |-> TRUE, exitReason |-> "TP", exitPrice |-> position.tpPrice]
  IN IF TpTouched(position, priceBar) /\ SlTouched(position, priceBar)
       THEN (IF closerHitsFirst = (slDistance < tpDistance) THEN sl ELSE tp)
     ELSE IF TpTouched(position, priceBar) THEN tp
     ELSE IF SlTouched(position, priceBar) THEN sl
     ELSE [shouldExit |-> FALSE, exitReason |-> "", exitPrice |-> 0]

\* the draws of one bar: one per position, fixed where it is not consulted
TieBreaks(positions, priceBar) ==
  { d \in [1..Len(positions) -> BOOLEAN] :
      \A k \in 1..Len(positions) :
        (TpTouched(positions[k], priceBar) /\ SlTouched(positions[k], priceBar)) \/ d[k] }

\* the filter keeping the positions whose exit it recorded
RECURSIVE evaluatePositionsOnBar_KeepsClosed(_, _, _, _, _, _, _, _, _)
evaluatePositionsOnBar_KeepsClosed(m, positions, k, kept, priceBar, volatilityFactor, draws, a, cfg) ==
  IF k > Len(positions)
    THEN [ completedTrades |-> m.completedTrades, totalPnl |-> m.totalPnl,
           activePositions |-> positions ]
  ELSE LET x == ExitDecision(positions[k], priceBar, draws[k])
       IN evaluatePositionsOnBar_KeepsClosed(
            IF x.shouldExit
              THEN recordExit(m, positions[k], x.exitPrice, x.exitReason,
                              priceBar.event_time, volatilityFactor, a, cfg)
              ELSE m,
            positions, k + 1, kept, priceBar, volatilityFactor, draws, a, cfg)

\* lines 2530-2590: the filter over activePositions, position k onwards
RECURSIVE evaluatePositionsOnBar(_, _, _, _, _, _, _, _, _)
evaluatePositionsOnBar(m, positions, k, kept, priceBar, volatilityFactor, draws, a, cfg) ==
  IF k > Len(positions)
    THEN [ completedTrades |-> m.completedTrades, totalPnl |-> m.totalPnl,
           activePositions |-> kept ]
  ELSE LET x == ExitDecision(positions[k], priceBar, draws[k])
       IN IF x.shouldExit
            THEN evaluatePositionsOnBar(
                   recordExit(m, positions[k], x.exitPrice, x.exitReason,
                              priceBar.event_time, volatilityFactor, a, cfg),
                   positions, k + 1, kept, priceBar, volatilityFactor, draws, a, cfg)
            ELSE evaluatePositionsOnBar(m, positions, k + 1, Append(kept, positions[k]),
                                        priceBar, volatilityFactor, draws, a, cfg)

\* the positions left open closed at their entry price instead of the last bar's
RECURSIVE CloseAtEnd_AtEntryPrice(_, _, _, _, _, _)
CloseAtEnd_AtEntryPrice(m, positions, k, lastBar, a, cfg) ==
  IF k > Len(positions) THEN m
  ELSE CloseAtEnd_AtEntryPrice(
         recordExit(m, positions[k], positions[k].entryPrice, "EOD",
                    lastBar.event_time, 100, a, cfg),
         positions, k + 1, lastBar, a, cfg)

\* lines 2662-2679: the positions left are closed at the last bar
RECURSIVE CloseAtEnd(_, _, _, _, _, _)
CloseAtEnd(m, positions, k, lastBar, a, cfg) ==
  IF k > Len(positions) THEN m
  ELSE LET position == positions[k]
           fallbackPrice == IF lastBar.price > 0 THEN lastBar.price ELSE position.entryPrice
       IN CloseAtEnd(recordExit(m, position, fallbackPrice, "EOD",
                                IF lastBar.event_time # 0 THEN lastBar.event_time
                                                          ELSE position.entryTime,
                                100, a, cfg),
                     positions, k + 1, lastBar, a, cfg)


(***************************************************************************)
(* calculateRiskMetrics (lines 2323-2369) and the statistics of            *)
(* backtestSymbol (lines 2681-2704).                                       *)
(***************************************************************************)
RECURSIVE SumPnl(_)
SumPnl(trades) == IF trades = <<>> THEN 0 ELSE Head(trades).pnl + SumPnl(Tail(trades))

RECURSIVE SumSq(_)
SumSq(trades) ==
  IF trades = <<>> THEN 0 ELSE Head(trades).pnl * Head(trades).pnl + SumSq(Tail(trades))

RECURSIVE SumDuration(_)
SumDuration(trades) ==
  IF trades = <<>> THEN 0 ELSE Head(trades).duration + SumDuration(Tail(trades))

Winners(trades) == SelectSeq(trades, LAMBDA t : t.pnl > 0)

Losers(trades) == SelectSeq(trades, LAMBDA t : t.pnl < 0)

\* lines 2330-2337: avgReturn / stdDev = S / sqrt(n * sum of squares - S * S),
\* held as the numerator and the radicand; 0 when stdDev is 0
SharpeRatio(trades) ==
  LET S == SumPnl(trades)
      D == Len(trades) * SumSq(trades) - S * S
  IN IF D > 0 /\ S # 0 THEN [num |-> S, rad |-> D] ELSE [num |-> 0, rad |-> 1]

\* lines 2340-2353, from trade i on
RECURSIVE DrawdownLoop(_, _, _, _, _)
DrawdownLoop(trades, i, peak, maxDrawdown, runningPnl) ==
  IF i > Len(trades) THEN [peak |-> peak, maxDrawdown |-> maxDrawdown]
  ELSE LET running == runningPnl + trades[i].pnl
           newPeak == IF running > peak THEN running ELSE peak
           drawdown == newPeak - running
       IN DrawdownLoop(trades, i + 1, newPeak,
                       IF drawdown > maxDrawdown THEN drawdown ELSE maxDrawdown, running)

\* [...returns].sort((a, b) => a - b)
RECURSIVE InsertSorted(_, _)
InsertSorted(sorted, x) ==
  IF sorted = <<>> THEN << x >>
  ELSE IF x <= Head(sorted) THEN << x >> \o sorted
  ELSE << Head(sorted) >> \o InsertSorted(Tail(sorted), x)

RECURSIVE SortedReturns(_)
SortedReturns(trades) ==
  IF trades = <<>> THEN <<>>
  ELSE InsertSorted(SortedReturns(Tail(trades)), Head(trades).pnl)

RECURSIVE SumSeq(_)
SumSeq(xs) == IF xs = <<>> THEN 0 ELSE Head(xs) + SumSeq(Tail(xs))

\* lines 2358-2360 and 2366, in hundredths
WinLossRatio(trades) ==
  LET totalWins == SumPnl(Winners(trades))
      totalLosses == Abs(SumPnl(Losers(trades)))
  IN IF totalLosses > 0 THEN NFin((totalWins * 100) \div totalLosses)
     ELSE IF totalWins > 0 THEN PInf ELSE NFin(0)

\* the tail taken from the returns as they stand in the ledger
Cvar_Unsorted(trades) ==
  SumPnl(SubSeq(trades, 1, Max(1, (Len(trades) * 5) \div 100)))
    \div Max(1, (Len(trades) * 5) \div 100)

\* lines 2362-2365
Cvar(trades) ==
  LET tailCount == Max(1, (Len(trades) * 5) \div 100)
  IN SumSeq(SubSeq(SortedReturns(trades), 1, tailCount)) \div tailCount

\* the metrics with the drawdown at the end of the ledger in place of the
\* largest one
calculateRiskMetrics_LastDrawdown(trades) ==
  IF Len(trades) = 0
    THEN [ sharpeRatio |-> [num |-> 0, rad |-> 1], maxDrawdown |-> 0,
           maxDrawdownPercent |-> 0, profitFactor |-> NFin(0), cvar |-> 0,
           payoffRatio |-> NFin(0) ]
  ELSE LET d == DrawdownLoop(trades, 1, 0, 0, 0)
       IN [ sharpeRatio |-> SharpeRatio(trades),
            maxDrawdown |-> d.peak - SumPnl(trades),
            maxDrawdownPercent |->
              IF d.peak > 0 THEN ((d.peak - SumPnl(trades)) * 10000) \div d.peak ELSE 0,
            profitFactor |-> WinLossRatio(trades),
            cvar |-> Cvar(trades),
            payoffRatio |-> WinLossRatio(trades) ]

\* lines 2323-2369
calculateRiskMetrics(trades) ==
  IF Len(trades) = 0
    THEN [ sharpeRatio |-> [num |-> 0, rad |-> 1], maxDrawdown |-> 0,
           maxDrawdownPercent |-> 0, profitFactor |-> NFin(0), cvar |-> 0,
           payoffRatio |-> NFin(0) ]
  ELSE LET d == DrawdownLoop(trades, 1, 0, 0, 0)
       IN [ sharpeRatio |-> SharpeRatio(trades),
            maxDrawdown |-> d.maxDrawdown,
            maxDrawdownPercent |->
              IF d.peak > 0 THEN (d.maxDrawdown * 10000) \div d.peak ELSE 0,
            profitFactor |-> WinLossRatio(trades),
            cvar |-> Cvar(trades),
            payoffRatio |-> WinLossRatio(trades) ]

\* lines 2682-2704; averages are rounded down, avgDuration is left in ms
BacktestResult(trades, total, active) ==
  LET wins == Len(Winners(trades))
      losses == Len(Losers(trades))
      riskMetrics == calculateRiskMetrics(trades)
  IN [ totalTrades |-> Len(trades),
       wins |-> wins,
       losses |-> losses,
       totalPnl |-> total,
       winRate |-> IF Len(trades) > 0 THEN (wins * 10000) \div Len(trades) ELSE 0,
       avgWin |-> IF wins > 0 THEN SumPnl(Winners(trades)) \div wins ELSE 0,
       avgLoss |-> IF losses > 0 THEN SumPnl(Losers(trades)) \div losses ELSE 0,
       avgDuration |-> IF Len(trades) > 0 THEN SumDuration(trades) \div Len(trades)
                                           ELSE 0,
       activePositions |-> Len(active),
       recentTrades |-> SubSeq(trades, Max(1, Len(trades) - 2), Len(trades)),
       sharpeRatio |-> riskMetrics.sharpeRatio,
       maxDrawdown |-> riskMetrics.maxDrawdown,
       maxDrawdownPercent |-> riskMetrics.maxDrawdownPercent,
       profitFactor |-> riskMetrics.profitFactor,
       cvar |-> riskMetrics.cvar,
       payoffRatio |-> riskMetrics.payoffRatio ]

\* lines 2408-2415: the result for a side without liquidations
EmptyBacktestResult ==
  [ totalTrades |-> 0, wins |-> 0, losses |-> 0, totalPnl |-> 0, winRate |-> 0,
    avgWin |-> 0, avgLoss |-> 0, avgDuration |-> 0, activePositions |-> 0,
    sharpeRatio |-> [num |-> 0, rad |-> 1], maxDrawdown |-> 0,
    maxDrawdownPercent |-> 0, profitFactor |-> NFin(0), cvar |-> 0,
    payoffRatio |-> NFin(0) ]


(***************************************************************************)
(* Inputs of the simulator: the liquidations table of the symbol (rows in  *)
(* event_time order) and the klines the exchange serves for it (none when  *)
(* the request fails).                                                     *)
(***************************************************************************)
Row(t, side, volume, price) ==
  [event_time |-> t, side |-> side, volume_usdt |-> volume, price |-> price]

Kline(t, high, low, close) ==
  [timestamp |-> t, open |-> close, high |-> high, low |-> low, close |-> close,
   volume |-> 0]

\* both sides liquidated within seconds of each other; a bar that touches
\* TP and SL of a long entered at 10000
TwoSidedData ==
  [ rows |-> << Row(60000, "SELL", 6000, 10000), Row(70000, "BUY", 6000, 10000),
                Row(90000, "SELL", 3000, 10000), Row(200000, "SELL", 3000, 10000),
                Row(200000, "BUY", 6000, 10000) >>,
    klines |-> << Kline(60000, 10050, 9980, 10000), Kline(120000, 10150, 9940, 10000),
                  Kline(180000, 10010, 9890, 9900), Kline(240000, 9950, 9850, 9900) >> ]

\* no klines: the liquidation prices are the bars, and they move fast
NoKlinesData ==
  [ rows |-> << Row(60000, "SELL", 6000, 10000), Row(100000, "BUY", 6000, 9900),
                Row(130000, "SELL", 6000, 10200) >>,
    klines |-> <<>> ]

\* nothing was liquidated on the SELL side
OneSidedData ==
  [ rows |-> << Row(60000, "BUY", 6000, 10000), Row(300000, "BUY", 6000, 10000) >>,
    klines |-> << Kline(60000, 10020, 9980, 10000), Kline(120000, 10020, 9980, 10000) >> ]

\* ten liquidations of 6000 on the SELL side, two minutes apart
ScenarioData ==
  [ rows |-> [ i \in 1..10 |-> Row(120000 * i, "SELL", 6000, 10000) ],
    klines |-> <<>> ]

SimOptionSets ==
  { NoOverrides,
    [cooldownMs |-> 30000, hunterCooldownMs |-> 0, windowMs |-> 60000,
     slippageMultiplier |-> -100],
    [cooldownMs |-> 0, hunterCooldownMs |-> 0, windowMs |-> 500,
     slippageMultiplier |-> 160, limitFillRate |-> 60, marketFallbackRate |-> 0],
    [cooldownMs |-> 60000, hunterCooldownMs |-> 0, windowMs |-> 60000] }

SimCall(side, threshold, maxPositions, tradeSize, leverage, tpPercent, slPercent, options, data) ==
  [ symbol |-> "BTCUSDT", side |-> side, threshold |-> threshold,
    maxPositions |-> maxPositions, tradeSize |-> tradeSize, leverage |-> leverage,
    tpPercent |-> tpPercent, slPercent |-> slPercent, options |-> options,
    data |-> data ]

ScenarioCall ==
  SimCall("SELL", 5000, 10, 10, 10, 10, 5,
          [cooldownMs |-> 0, windowMs |-> 60000, marketFallbackRate |-> 0],
          ScenarioData)

\* a call that brings its own price bars
OverrideCall ==
  SimCall("SELL", 5000, 2, 10, 10, 10, 5,
          [priceDataOverride |->
             << Kline(60000, 10020, 9990, 10000), Kline(120000, 10120, 9990, 10100),
                Kline(180000, 10110, 10000, 10050) >>],
          TwoSidedData)

SimCalls ==
  { SimCall(side, 5000, maxPositions, 10, 10, 10, 5, options, data) :
      side \in {"SELL", "BUY"}, maxPositions \in {1, 2}, options \in SimOptionSets,
      data \in {TwoSidedData, NoKlinesData, OneSidedData} }
    \cup {ScenarioCall, OverrideCall}

\* a second run is modelled for tables of at most this many rows
MaxRerunRows == 5


(***************************************************************************)
(* One run of backtestSymbol, and a second one on the same symbol.         *)
(***************************************************************************)
\* line 391
PriceCacheKey(a) == << a.symbol, "1m", 10080 >>

\* the cached array truncated when it is handed out again
getCachedHistoricalPrices_Consuming(cache, a) ==
  IF PriceCacheKey(a) \in DOMAIN cache
    THEN [cache |-> [k \in {PriceCacheKey(a)} |-> <<>>],
          priceData |-> cache[PriceCacheKey(a)]]
    ELSE [cache |-> [k \in {PriceCacheKey(a)} |-> a.data.klines],
          priceData |-> a.data.klines]

\* lines 388-464: the cached array, or the klines fetched and cached
getCachedHistoricalPrices(cache, a) ==
  IF PriceCacheKey(a) \in DOMAIN cache
    THEN [cache |-> cache, priceData |-> cache[PriceCacheKey(a)]]
    ELSE [cache |-> [k \in {PriceCacheKey(a)} |-> a.data.klines],
          priceData |-> a.data.klines]

\* lines 2417-2427: the override array if one is passed, else the cached bars
loadPriceData(cache, a) ==
  IF "priceDataOverride" \in DOMAIN a.options
    THEN [cache |-> cache, priceData |-> a.options.priceDataOverride]
    ELSE getCachedHistoricalPrices(cache, a)

\* lines 2372-2443: the call up to the event loop
BeginRun(a, previous) ==
  /\ simArgs' = a
  /\ previousRun' = previous
  /\ liquidations' = SelectSide(a.data.rows, a.side)
  /\ eventIndex' = 1
  /\ priceIndex' = 1
  /\ activePositions' = <<>>
  /\ completedTrades' = <<>>
  /\ totalPnl' = 0
  /\ lastEntryTime' = NInf
  /\ lastHunterEntryTime' = NInf
  /\ entryLog' = <<>>
  /\ gateLog' = <<>>
  /\ IF Len(SelectSide(a.data.rows, a.side)) = 0
       THEN /\ simPc' = "returned"
            /\ simResult' = EmptyBacktestResult
            /\ allPrices' = <<>>
            /\ UNCHANGED priceDataCache
       ELSE /\ simPc' = "events"
            /\ simResult' = Nil
            /\ \E loaded \in {loadPriceData(priceDataCache, a)} :
                 /\ priceDataCache' = loaded.cache
                 /\ allPrices' = IF Len(loaded.priceData) > 0
                                   THEN BarsOfPriceData(loaded.priceData)
                                   ELSE BarsOfLiquidations(a.data.rows)
  /\ UNCHANGED << optVars, runVars, riskVars, genVars, jobVars >>

SimStart ==
  /\ simPc = "idle"
  /\ \E a \in SimCalls : BeginRun(a, Nil)

\* the caller simulates the symbol again: the other side of the parameter set
\* (lines 1598-1630) or the same call once more
SimRerun ==
  /\ simPc = "returned"
  /\ IsNil(previousRun)
  /\ Len(simArgs.data.rows) <= MaxRerunRows
  /\ \E side \in {"SELL", "BUY"} :
       BeginRun([simArgs EXCEPT !.side = side],
                [side |-> simArgs.side, entryLog |-> entryLog, result |-> simResult])

\* one bar evaluated (lines 2610-2612 and 2657-2659)
EvaluateNextBar ==
  /\ \E draws \in TieBreaks(activePositions, allPrices[priceIndex]) :
       \E r \in { evaluatePositionsOnBar(
                    [completedTrades |-> completedTrades, totalPnl |-> totalPnl],
                    activePositions, 1, <<>>, allPrices[priceIndex],
                    calculateVolatilityFactor(allPrices, priceIndex), draws, simArgs,
                    exitSlippageCfg(SimOptions(simArgs.options))) } :
         /\ activePositions' = r.activePositions
         /\ completedTrades' = r.completedTrades
         /\ totalPnl' = r.totalPnl
  /\ priceIndex' = priceIndex + 1
  /\ UNCHANGED << simPc, simArgs, priceDataCache, liquidations, allPrices, eventIndex,
                  lastEntryTime, lastHunterEntryTime, entryLog, gateLog, simResult,
                  previousRun >>
  /\ UNCHANGED << optVars, runVars, riskVars, genVars, jobVars >>

\* the loop of line 2609 stopping at the bars of the event's own timestamp
BarPending_Before ==
  /\ priceIndex <= Len(allPrices)
  /\ allPrices[priceIndex].event_time < liquidations[eventIndex].event_time

\* line 2609
BarPending ==
  /\ priceIndex <= Len(allPrices)
  /\ allPrices[priceIndex].event_time <= liquidations[eventIndex].event_time

\* lines 2609-2613
SimBar ==
  /\ simPc = "events"
  /\ eventIndex <= Len(liquidations)
  /\ BarPending
  /\ EvaluateNextBar

\* the gate with the hunter cooldown required to be exceeded
EntryGate_StrictHunter(o, currentTime, windowVolume) ==
  /\ windowVolume >= simArgs.threshold
  /\ Len(activePositions) < simArgs.maxPositions
  /\ NGe(NSub(NFin(currentTime), lastEntryTime), NFin(o.cooldownMs))
  /\ NGt(NSub(NFin(currentTime), lastHunterEntryTime), NFin(o.hunterCooldownMs))

\* the gate open while the open positions do not exceed maxPositions
EntryGate_UpToLimit(o, currentTime, windowVolume) ==
  /\ windowVolume >= simArgs.threshold
  /\ Len(activePositions) <= simArgs.maxPositions
  /\ NGe(NSub(NFin(currentTime), lastEntryTime), NFin(o.cooldownMs))
  /\ NGe(NSub(NFin(currentTime), lastHunterEntryTime), NFin(o.hunterCooldownMs))

\* lines 2616-2618
EntryGate(o, currentTime, windowVolume) ==
  /\ windowVolume >= simArgs.threshold
  /\ Len(activePositions) < simArgs.maxPositions
  /\ NGe(NSub(NFin(currentTime), lastEntryTime), NFin(o.cooldownMs))
  /\ NGe(NSub(NFin(currentTime), lastHunterEntryTime), NFin(o.hunterCooldownMs))

\* lines 2626-2650
NewPosition(o, currentEvent, market) ==
  LET isLong == simArgs.side = "SELL"
      entryPrice == IF market
                      THEN ApplySlippage(currentEvent.price, entryMarketSlippage(o),
                                         IF isLong THEN 1 ELSE -1)
                      ELSE currentEvent.price
  IN [ entryPrice |-> entryPrice,
       entryTime |-> currentEvent.event_time,
       tpPrice |-> ApplyPercent(entryPrice, simArgs.tpPercent, IF isLong THEN 1 ELSE -1),
       slPrice |-> ApplyPercent(entryPrice, simArgs.slPercent, IF isLong THEN -1 ELSE 1),
       isLong |-> isLong,
       size |-> [notional |-> simArgs.tradeSize * simArgs.leverage * 1000,
                 per |-> entryPrice] ]

\* the outcomes of the two draws of lines 2619 and 2627
FillOutcomes(o) ==
  {"nofill", "limit"} \cup (IF o.marketFallbackRate > 0 THEN {"market"} ELSE {})

\* the event loop with a skipped entry starting the per-side cooldown
SimEntry_SkipStartsCooldown ==
  /\ simPc = "events"
  /\ eventIndex <= Len(liquidations)
  /\ ~BarPending
  /\ \E o \in {SimOptions(simArgs.options)} :
     \E currentEvent \in {liquidations[eventIndex]} :
     \E windowVolume \in { WindowVolume(liquidations, eventIndex,
                                        currentEvent.event_time - o.windowMs,
                                        currentEvent.event_time) } :
       IF ~EntryGate(o, currentEvent.event_time, windowVolume)
         THEN /\ gateLog' = Append(gateLog, "blocked")
              /\ UNCHANGED << activePositions, lastEntryTime, lastHunterEntryTime,
                              entryLog >>
         ELSE \E fill \in FillOutcomes(o) :
                /\ gateLog' = Append(gateLog, fill)
                /\ IF fill = "nofill"
                     THEN /\ lastEntryTime' = NFin(currentEvent.event_time)
                          /\ UNCHANGED << activePositions, lastHunterEntryTime,
                                          entryLog >>
                     ELSE /\ activePositions' =
                               Append(activePositions,
                                      NewPosition(o, currentEvent, fill = "market"))
                          /\ lastEntryTime' = NFin(currentEvent.event_time)
                          /\ lastHunterEntryTime' = NFin(currentEvent.event_time)
                          /\ entryLog' =
                               Append(entryLog,
                                      [event |-> eventIndex,
                                       time |-> currentEvent.event_time,
                                       windowVolume |-> windowVolume])
  /\ eventIndex' = eventIndex + 1
  /\ simPc' = IF eventIndex + 1 > Len(liquidations) THEN "tail" ELSE "events"
  /\ UNCHANGED << simArgs, priceDataCache, liquidations, allPrices, priceIndex,
                  completedTrades, totalPnl, simResult, previousRun >>
  /\ UNCHANGED << optVars, runVars, riskVars, genVars, jobVars >>

\* lines 2593-2654: one event of the loop, its bars evaluated
SimEntry ==
  /\ simPc = "events"
  /\ eventIndex <= Len(liquidations)
  /\ ~BarPending
  /\ \E o \in {SimOptions(simArgs.options)} :
     \E currentEvent \in {liquidations[eventIndex]} :
     \E windowVolume \in { WindowVolume(liquidations, eventIndex,
                                        currentEvent.event_time - o.windowMs,
                                        currentEvent.event_time) } :
       IF ~EntryGate(o, currentEvent.event_time, windowVolume)
         THEN /\ gateLog' = Append(gateLog, "blocked")
              /\ UNCHANGED << activePositions, lastEntryTime, lastHunterEntryTime,
                              entryLog >>
         ELSE \E fill \in FillOutcomes(o) :
                /\ gateLog' = Append(gateLog, fill)
                /\ IF fill = "nofill"
                     THEN UNCHANGED << activePositions, lastEntryTime,
                                       lastHunterEntryTime, entryLog >>
                     ELSE /\ activePositions' =
                               Append(activePositions,
                                      NewPosition(o, currentEvent, fill = "market"))
                          /\ lastEntryTime' = NFin(currentEvent.event_time)
                          /\ lastHunterEntryTime' = NFin(currentEvent.event_time)
                          /\ entryLog' =
                               Append(entryLog,
                                      [event |-> eventIndex,
                                       time |-> currentEvent.event_time,
                                       windowVolume |-> windowVolume])
  /\ eventIndex' = eventIndex + 1
  /\ simPc' = IF eventIndex + 1 > Len(liquidations) THEN "tail" ELSE "events"
  /\ UNCHANGED << simArgs, priceDataCache, liquidations, allPrices, priceIndex,
                  completedTrades, totalPnl, simResult, previousRun >>
  /\ UNCHANGED << optVars, runVars, riskVars, genVars, jobVars >>

\* lines 2656-2660
SimTailBar ==
  /\ simPc = "tail"
  /\ priceIndex <= Len(allPrices)
  /\ EvaluateNextBar

\* lines 2663-2669
LastBar ==
  IF Len(allPrices) > 0 THEN allPrices[Len(allPrices)]
  ELSE [event_time |-> liquidations[Len(liquidations)].event_time,
        price |-> liquidations[Len(liquidations)].price]

\* lines 2662-2704: the open positions are closed and the result returned
SimClose ==
  /\ simPc = "tail"
  /\ priceIndex > Len(allPrices)
  /\ \E m \in { CloseAtEnd([completedTrades |-> completedTrades, totalPnl |-> totalPnl],
                           activePositions, 1, LastBar, simArgs,
                           exitSlippageCfg(SimOptions(simArgs.options))) } :
       /\ completedTrades' = m.completedTrades
       /\ totalPnl' = m.totalPnl
       /\ simResult' = BacktestResult(m.completedTrades, m.totalPnl, <<>>)
  /\ activePositions' = <<>>
  /\ simPc' = "returned"
  /\ UNCHANGED << simArgs, priceDataCache, liquidations, allPrices, eventIndex,
                  priceIndex, lastEntryTime, lastHunterEntryTime, entryLog, gateLog,
                  previousRun >>
  /\ UNCHANGED << optVars, runVars, riskVars, genVars, jobVars >>

NextSim ==
  \/ SimStart
  \/ SimRerun
  \/ SimBar
  \/ SimEntry
  \/ SimTailBar
  \/ SimClose

SpecSim == Init /\ [][NextSim]_vars


(***************************************************************************)
(* Properties of backtestSymbol (SpecSim).                                 *)
(***************************************************************************)
SecondRunReturned == simPc = "returned" /\ ~IsNil(previousRun)

\* C11: two runs of backtestSymbol with the same symbol, side, parameters,
\* overrides and historical data return the same result and make the same
\* entries.
C11_SameInputsSameResult ==
  (SecondRunReturned /\ previousRun.side = simArgs.side) =>
    /\ simResult = previousRun.result
    /\ entryLog = previousRun.entryLog


ScenarioReturned == simPc = "returned" /\ simArgs = ScenarioCall

CountOf(log, x) == Len(SelectSeq(log, LAMBDA g : g = x))

\* C12 as stated: with side SELL, threshold 5000, window 60 s, cooldown 0 and
\* maxPositions 10, ten liquidations of 6000 two minutes apart give ten
\* entries.
C12_TenEventsTenEntries == ScenarioReturned => Len(entryLog) = 10

\* C12: in that scenario every one of the ten events passes the entry gate,
\* and an event opens a position unless the limit-order non-fill draw skips
\* it: the run makes ten entries less the non-fills, each closed and counted.
C12_TenEventsQualify ==
  ScenarioReturned =>
    /\ Len(gateLog) = 10
    /\ CountOf(gateLog, "blocked") = 0
    /\ Len(entryLog) = 10 - CountOf(gateLog, "nofill")
    /\ simResult.totalTrades = Len(entryLog)

\* the scenario ran with every order filled, and with some not
C12_Witness == ScenarioReturned /\ Len(entryLog) = 10


\* C13: in every state of a run the open positions number at most
\* maxPositions.
C13_OpenPositionsBounded ==
  ~IsNil(simArgs) => Len(activePositions) <= simArgs.maxPositions

\* an event that only the position limit keeps out: the limit is reached, the
\* window volume is there and both cooldowns have elapsed
C13_Witness ==
  /\ simPc = "events"
  /\ eventIndex <= Len(liquidations)
  /\ ~BarPending
  /\ Len(activePositions) = simArgs.maxPositions
  /\ LET o == SimOptions(simArgs.options)
         t == liquidations[eventIndex].event_time
     IN /\ WindowVolume(liquidations, eventIndex, t - o.windowMs, t) >= simArgs.threshold
        /\ NGe(NSub(NFin(t), lastEntryTime), NFin(o.cooldownMs))
        /\ NGe(NSub(NFin(t), lastHunterEntryTime), NFin(o.hunterCooldownMs))


\* the volume of all events of the run's side whose time lies in [from, to]
RECURSIVE VolumeInside(_, _, _, _)
VolumeInside(liqs, i, from, to) ==
  IF i < 1 THEN 0
  ELSE (IF liqs[i].event_time >= from /\ liqs[i].event_time <= to
          THEN liqs[i].volume_usdt ELSE 0)
       + VolumeInside(liqs, i - 1, from, to)

\* C14: a position is opened at an event only if the events inside the
\* trailing windowMs ending at it carry at least the threshold volume, and two
\* consecutive entries of a run are at least cooldownMs and at least
\* hunterCooldownMs apart (the values the run simulates with).
C14_EntriesRespectWindowAndCooldowns ==
  ~IsNil(simArgs) =>
    LET o == SimOptions(simArgs.options)
    IN /\ \A k \in 1..Len(entryLog) :
            VolumeInside(liquidations, Len(liquidations),
                         entryLog[k].time - o.windowMs, entryLog[k].time)
              >= simArgs.threshold
       /\ \A k \in 2..Len(entryLog) :
            /\ entryLog[k].time - entryLog[k - 1].time >= o.cooldownMs
            /\ entryLog[k].time - entryLog[k - 1].time >= o.hunterCooldownMs

\* two entries exactly one cooldown apart, and an event kept out for its
\* window volume
C14_Witness ==
  /\ simPc = "returned"
  /\ SimOptions(simArgs.options).cooldownMs > 0
  /\ Len(entryLog) >= 2
  /\ entryLog[2].time - entryLog[1].time = SimOptions(simArgs.options).cooldownMs
  /\ \E g \in 1..Len(gateLog) :
       /\ gateLog[g] = "blocked"
       /\ VolumeInside(liquidations, Len(liquidations),
                       liquidations[g].event_time - SimOptions(simArgs.options).windowMs,
                       liquidations[g].event_time) < simArgs.threshold


BothSidesReturned ==
  /\ SecondRunReturned
  /\ previousRun.side # simArgs.side

\* C15: the hunter cooldown is shared between the two sides: over the two
\* runs of one parameter set, no entry on either side comes less than
\* hunterCooldownMs after an entry on the other side.
C15_HunterCooldownShared ==
  BothSidesReturned =>
    \A e1 \in 1..Len(previousRun.entryLog), e2 \in 1..Len(entryLog) :
      Abs(entryLog[e2].time - previousRun.entryLog[e1].time)
        >= SimOptions(simArgs.options).hunterCooldownMs


\* the step that returns from backtestSymbol
SimReturns == simPc = "tail" /\ simPc' = "returned"

SlippageMultipliers == {-100, 0, 25, 75, 100, 160, 400}
VolatilityFactors == {50, 100, 150, 151, 300}
TriggerPrices == {1, 37, 9949, 10000, 10100}

NotBetterThanTrigger(isLong, exitPrice, triggerPrice) ==
  IF isLong THEN exitPrice <= triggerPrice ELSE exitPrice >= triggerPrice

\* C17: a trade closed by TP or SL is never closed at a better price than the
\* trigger price: a long's exit price is at most the trigger price and a
\* short's at least the trigger price, whatever the slippage multiplier and
\* the volatility factor.
C17_SlippageNeverImproves ==
  /\ \A k \in 1..Len(completedTrades) :
       completedTrades[k].exitReason \in {"TP", "SL"} =>
         NotBetterThanTrigger(completedTrades[k].side = "LONG",
                              completedTrades[k].exitPrice,
                              completedTrades[k].triggerPrice)
  /\ \A mult \in SlippageMultipliers, vf \in VolatilityFactors,
        price \in TriggerPrices, isLong \in BOOLEAN, reason \in {"TP", "SL"} :
       NotBetterThanTrigger(
         isLong,
         SlippedExitPrice([isLong |-> isLong], price, reason, vf,
                          exitSlippageCfg(SimOptions([slippageMultiplier |-> mult]))),
         price)

\* a stop-loss filled in a volatile market, away from its trigger price
C17_Witness ==
  \E k \in 1..Len(completedTrades) :
    /\ completedTrades[k].exitReason = "SL"
    /\ completedTrades[k].volatilityFactor > 150
    /\ completedTrades[k].exitPrice # completedTrades[k].triggerPrice

\* a step inside one run of backtestSymbol
InsideRun == simPc \in {"events", "tail"}

\* C18: every closed trade is appended to the ledger once, with
\* pnl = grossPnl - commission; ledger entries are never changed or removed
\* afterwards; the returned totalPnl is the sum of the ledger's pnl values
\* and totalTrades is the ledger's length.
C18_LedgerAccounting ==
  /\ [](\A k \in 1..Len(completedTrades) :
          completedTrades[k].pnl =
            completedTrades[k].grossPnl - completedTrades[k].commission)
  /\ [](Len(entryLog) = Len(activePositions) + Len(completedTrades))
  /\ [](simPc = "returned" =>
          /\ simResult.totalPnl = SumPnl(completedTrades)
          /\ simResult.totalTrades = Len(completedTrades))
  /\ [][InsideRun =>
          /\ Len(completedTrades') >= Len(completedTrades)
          /\ SubSeq(completedTrades', 1, Len(completedTrades)) = completedTrades
          /\ Len(completedTrades') - Len(completedTrades)
               = Len(activePositions) + (Len(entryLog') - Len(entryLog))
                   - Len(activePositions')]_vars

\* a returned run whose ledger holds trades closed on a bar and at the end of
\* the data, with commission taken off
C18_Witness ==
  /\ simPc = "returned"
  /\ Len(completedTrades) >= 2
  /\ \E k \in 1..Len(completedTrades) : completedTrades[k].exitReason \in {"TP", "SL"}
  /\ \E k \in 1..Len(completedTrades) : completedTrades[k].exitReason = "EOD"
  /\ \A k \in 1..Len(completedTrades) : completedTrades[k].commission > 0
  /\ simResult.totalPnl # 0


\* C19: backtestSymbol leaves the historical data it is given as it was: the
\* cached price bars of a symbol, and an override array passed in the
\* options, hold the same bars in the same order after a run as before it, so
\* a later run on the symbol sees the same data.
C19_PriceDataNotMutated ==
  /\ [][/\ \A key \in DOMAIN priceDataCache :
             /\ key \in DOMAIN priceDataCache'
             /\ priceDataCache'[key] = priceDataCache[key]
        /\ InsideRun => simArgs' = simArgs]_vars
  /\ [](\A key \in DOMAIN priceDataCache :
          ~IsNil(simArgs) /\ key = PriceCacheKey(simArgs)
            => priceDataCache[key] = simArgs.data.klines)
  /\ [](simPc \in {"events", "tail", "returned"} /\ Len(liquidations) > 0 =>
          allPrices =
            IF "priceDataOverride" \in DOMAIN simArgs.options
              THEN BarsOfPriceData(simArgs.options.priceDataOverride)
            ELSE IF Len(simArgs.data.klines) > 0
              THEN BarsOfPriceData(simArgs.data.klines)
            ELSE BarsOfLiquidations(simArgs.data.rows))

\* a second run that read the cached bars of the first and closed trades on
\* them
C19_Witness ==
  /\ SecondRunReturned
  /\ PriceCacheKey(simArgs) \in DOMAIN priceDataCache
  /\ Len(priceDataCache[PriceCacheKey(simArgs)]) > 0
  /\ previousRun.result.totalTrades > 0
  /\ simResult.totalTrades > 0


(***************************************************************************)
(* calculateRiskMetrics and the statistics of backtestSymbol on a ledger.  *)
(***************************************************************************)
\* every ledger of at most this many trades, and the ledger of five trades
\* [10, -5, 20, -15, 5]
MaxLedger == 4

\* net pnl values of the trades
PnlValues == {-15, -5, 5, 10, 20}

ScenarioLedger ==
  [ i \in 1..5 |-> [pnl |-> << 10, -5, 20, -15, 5 >>[i], duration |-> 60000] ]

Ledgers ==
  UNION { [1..n -> { [pnl |-> p, duration |-> 60000] : p \in PnlValues }] :
            n \in 0..MaxLedger }
    \cup {ScenarioLedger}

InitRisk ==
  /\ OptInit /\ RunIdle /\ SimIdle /\ GenIdle /\ JobIdle
  /\ riskTrades \in Ledgers
  /\ riskResult = Nil

\* lines 2681-2704: the statistics of a ledger, totalPnl being the sum
\* recordExit accumulated (line 2511)
RiskCompute ==
  /\ IsNil(riskResult)
  /\ riskResult' = BacktestResult(riskTrades, SumPnl(riskTrades), <<>>)
  /\ UNCHANGED << riskTrades, optVars, runVars, simVars, genVars, jobVars >>

NextRisk == RiskCompute

SpecRisk == InitRisk /\ [][NextRisk]_vars

\* cumulative pnl after the first n trades
RECURSIVE Cumulative(_, _)
Cumulative(trades, n) == IF n = 0 THEN 0 ELSE Cumulative(trades, n - 1) + trades[n].pnl

\* the highest cumulative pnl over the prefixes of at most n trades
RunningPeak(trades, n) ==
  CHOOSE p \in { Cumulative(trades, m) : m \in 0..n } :
    \A m \in 0..n : Cumulative(trades, m) <= p

\* the largest distance below the running peak over all prefixes
LargestDrawdown(trades) ==
  CHOOSE d \in { RunningPeak(trades, n) - Cumulative(trades, n) : n \in 0..Len(trades) } :
    \A n \in 0..Len(trades) : RunningPeak(trades, n) - Cumulative(trades, n) <= d

\* C20: for every ledger maxDrawdown is the largest value, over all prefixes
\* of the ledger (the empty one, with cumulative pnl 0, included), of the
\* running peak of the cumulative pnl minus the current cumulative pnl; the
\* ledger [10, -5, 20, -15, 5] gives maxDrawdown 15, total pnl 15, 3 wins,
\* 2 losses and a win rate of 60 %.
C20_MaxDrawdownOverPrefixes ==
  ~IsNil(riskResult) =>
    /\ riskResult.maxDrawdown = LargestDrawdown(riskTrades)
    /\ riskTrades = ScenarioLedger =>
         /\ riskResult.maxDrawdown = 15
         /\ riskResult.totalPnl = 15
         /\ riskResult.wins = 3
         /\ riskResult.losses = 2
         /\ riskResult.winRate = 6000

\* the metrics of the ledger [10, -5, 20, -15, 5]
C20_Witness ==
  /\ riskTrades = ScenarioLedger
  /\ ~IsNil(riskResult)
  /\ riskResult.maxDrawdown = 15


\* the orders in which n trades can stand
Reorderings(n) ==
  { f \in [1..n -> 1..n] : \A i, j \in 1..n : i # j => f[i] # f[j] }

Reordered(trades, f) == [ i \in 1..Len(trades) |-> trades[f[i]] ]

\* the statistics of a ledger that do not depend on the order of its trades
OrderFreeMetrics(r) ==
  << r.totalPnl, r.wins, r.losses, r.winRate, r.profitFactor, r.cvar >>

StatisticsOf(trades) == BacktestResult(trades, SumPnl(trades), <<>>)

\* C21: total pnl, wins, losses, win rate, profit factor and CVaR of a ledger
\* are the same for every reordering of its trades, while maxDrawdown depends
\* on the order: the ledger [10, -5, 20, -15, 5] has a reordering with another
\* maxDrawdown.
C21_ReorderingKeepsTotalsNotDrawdown ==
  ~IsNil(riskResult) =>
    /\ \A f \in Reorderings(Len(riskTrades)) :
         OrderFreeMetrics(StatisticsOf(Reordered(riskTrades, f)))
           = OrderFreeMetrics(riskResult)
    /\ riskTrades = ScenarioLedger =>
         \E f \in Reorderings(Len(riskTrades)) :
           StatisticsOf(Reordered(riskTrades, f)).maxDrawdown # riskResult.maxDrawdown

\* a ledger of five trades with wins and losses, and a reordering of it with
\* another maxDrawdown and the same totals
C21_Witness ==
  /\ ~IsNil(riskResult)
  /\ Len(riskTrades) = 5
  /\ riskResult.wins > 0 /\ riskResult.losses > 0
  /\ \E f \in Reorderings(5) :
       /\ StatisticsOf(Reordered(riskTrades, f)).maxDrawdown # riskResult.maxDrawdown
       /\ OrderFreeMetrics(StatisticsOf(Reordered(riskTrades, f)))
            = OrderFreeMetrics(riskResult)


(***************************************************************************)
(* The candidate generators (lines 784-964 and 1242-1257).  Values are     *)
(* whole numbers; thorough stands for OPTIMIZER_MODE === 'thorough', which *)
(* the code reads from the environment when the module is loaded.          *)
(***************************************************************************)
\* lines 784-786: the positive values, ascending, without duplicates
dedupeAndSort(values) ==
  SortedSeq({ values[i] : i \in { j \in DOMAIN values : values[j] > 0 } })

\* Math.round(n / d) for n >= 0 and d > 0
RoundDiv(n, d) == (2 * n + d) \div (2 * d)

\* lines 788-806.  For maxCount = 1 the step (length - 1) / 0 is Infinity,
\* the index Math.round(0 * Infinity) is NaN, sorted[NaN] is undefined, and
\* dedupeAndSort drops it.
sampleCandidates(values, maxCount, thorough) ==
  LET sorted == dedupeAndSort(values)
  IN IF maxCount <= 0 THEN sorted
     ELSE IF thorough \/ Len(sorted) <= maxCount THEN sorted
     ELSE IF maxCount = 1 THEN <<>>
     ELSE dedupeAndSort(
            [ i \in 1..maxCount |->
                sorted[RoundDiv((i - 1) * (Len(sorted) - 1), maxCount - 1) + 1] ])


\* OPTIMIZER_MIN_THRESHOLD_PCTL default 0.35, in ten-thousandths
MIN_THRESHOLD_PERCENTILE == 3500

\* lines 861-878: the percentiles taken of a sample of at most 1500 volumes,
\* in ten-thousandths; the last eight are Math.pow(i / 9, 1.8) for i = 1..8
PercentileTargets ==
  {1000, 1500, 2000, 2500, 3000, 3500, 4000, 4500, 5000, 6000, 7000, 8000, 9000, 9500,
   9800}
    \cup {MIN_THRESHOLD_PERCENTILE}
    \cup {200, 667, 1384, 2323, 3471, 4820, 6361, 8090}

\* [...values].sort((a, b) => a - b)
RECURSIVE SortAscending(_)
SortAscending(xs) ==
  IF xs = <<>> THEN <<>> ELSE InsertSorted(SortAscending(Tail(xs)), Head(xs))

\* lines 808-832: the percentile p (ten-thousandths) of a non-empty sample, by
\* linear interpolation, in ten-thousandths of a unit
computePercentile(values, p) ==
  LET sorted == SortAscending(values)
      index == (Len(values) - 1) * p
      lower == index \div 10000
      weight == index % 10000
  IN IF weight = 0 THEN sorted[lower + 1] * 10000
     ELSE sorted[lower + 1] * (10000 - weight) + sorted[lower + 2] * weight

\* Math.round(value / 10) * 10 of a value held in ten-thousandths
RoundToTen(value) == RoundDiv(value, 100000) * 10

\* lines 934-950: the values put between neighbours that lie far apart
Intermediates(sorted) ==
  UNION { LET current == sorted[i]
              next == sorted[i + 1]
              midpoint == RoundDiv(current + next, 20) * 10
              weighted == RoundDiv(7 * current + 3 * next, 100) * 10
          IN IF 2 * (next - current) > current /\ next - current > 100
               THEN { v \in {midpoint, weighted} : v > current /\ v < next }
               ELSE {}
          : i \in 1..(Len(sorted) - 1) }

\* lines 880-900: the rounded percentiles, the tenth percentile again and the
\* current threshold
RawThresholds(volumes, currentThreshold) ==
  { RoundToTen(computePercentile(volumes, p)) : p \in PercentileTargets }
    \cup {RoundToTen(computePercentile(volumes, 1000))}
    \cup {currentThreshold}

\* lines 902-929; every percentile of a non-empty sample of positive volumes
\* is positive, so the first entry of floorPriority is taken
MinAllowed(volumes) ==
  Max(RoundToTen(computePercentile(volumes, MIN_THRESHOLD_PERCENTILE)),
      RoundToTen(computePercentile(volumes, 1000)))

\* line 952 before the filter
SampledThresholds(volumes, currentThreshold, maxCount, thorough) ==
  LET sorted == SortedSeq({ v \in RawThresholds(volumes, currentThreshold) : v > 0 })
  IN sampleCandidates(SortedSeq({ sorted[i] : i \in DOMAIN sorted }
                                  \cup Intermediates(sorted)),
                      maxCount, thorough)

\* lines 845-964; volumes is what getLiquidationVolumes returns (positive
\* numbers), currentThreshold 0 stands for a missing or zero argument
generateThresholdCandidates(volumes, currentThreshold, maxCount, thorough) ==
  IF Len(volumes) = 0
    THEN [ candidates |-> IF currentThreshold # 0 THEN << currentThreshold >> ELSE <<>>,
           minAllowed |-> currentThreshold ]
    ELSE LET minAllowed == MinAllowed(volumes)
             minThreshold == RoundToTen(computePercentile(volumes, 1000))
             sampled ==
               SelectSeq(SampledThresholds(volumes, currentThreshold, maxCount, thorough),
                         LAMBDA value : value >= minAllowed)
             fallback == IF minAllowed # 0 THEN minAllowed
                         ELSE IF currentThreshold # 0 THEN currentThreshold
                         ELSE minThreshold
         IN [ candidates |->
                IF Len(sampled) > 0 THEN sampled
                ELSE IF fallback # 0 THEN << fallback >> ELSE <<>>,
              minAllowed |-> minAllowed ]


\* lines 554-573: MODE_SETTINGS
ModeSettings(thorough) ==
  IF thorough
    THEN [thresholdMax |-> 48, tpMax |-> 24, slMax |-> 24, leverageMax |-> 10,
          marginMax |-> 10, windowMax |-> 12, cooldownMax |-> 12]
    ELSE [thresholdMax |-> 12, tpMax |-> 5, slMax |-> 5, leverageMax |-> 5,
          marginMax |-> 4, windowMax |-> 4, cooldownMax |-> 4]

\* lines 1242-1246, in tenths; currentLeverage 0 stands for a missing value
generateLeverageCandidates(currentLeverage, thorough) ==
  sampleCandidates(
    SelectSeq(dedupeAndSort(<< currentLeverage * 10, 50, 75, 100, 125, 150, 175, 200,
                               250 >>),
              LAMBDA val : val > 0 /\ val <= 250),
    ModeSettings(thorough).leverageMax, thorough)

\* lines 1248-1258, in hundredths of the arguments' unit
generateMarginCandidates(capitalBudget, currentMargin, minMargin, minRequired, thorough) ==
  LET clampedMin == Max(0, Min(capitalBudget, minMargin))
      base == Max(clampedMin,
                  IF currentMargin > 0 THEN currentMargin
                  ELSE IF minRequired # 0 THEN Min(capitalBudget, minRequired)
                  ELSE capitalBudget \div 2)
      multiples == << 90, 100, 110, 125, 150, 175, 200, 250, 300 >>
      generated ==
        [ i \in 1..Len(multiples) |->
            Min(capitalBudget * 100, Max(clampedMin * 100, base * multiples[i])) ]
          \o << currentMargin * 100, minRequired * 100, capitalBudget * 60,
                capitalBudget * 85, capitalBudget * 100 >>
  IN sampleCandidates(
       SelectSeq(dedupeAndSort(generated), LAMBDA val : val > 0 /\ val <= capitalBudget * 100),
       ModeSettings(thorough).marginMax, thorough)

\* lines 1357-1367 and 1598-1630 for one side: the thresholds the generator
\* sampled, those it returned, and those the coarse search simulates
ThresholdSweep(volumes, configThreshold, thorough) ==
  LET currentThreshold == OrDefault(configThreshold, 1000)
      maxCount == ModeSettings(thorough).thresholdMax
      data == generateThresholdCandidates(volumes, currentThreshold, maxCount, thorough)
      candidates == IF Len(data.candidates) > 0 THEN data.candidates
                    ELSE << Max(data.minAllowed, OrDefault(configThreshold, 10)) >>
  IN [ sampled |-> IF Len(volumes) = 0 THEN << currentThreshold >>
                   ELSE SampledThresholds(volumes, currentThreshold, maxCount, thorough),
       candidates |-> candidates,
       minAllowed |-> data.minAllowed,
       simulated |-> { Max(1, candidates[i]) :
                         i \in { j \in DOMAIN candidates :
                                   thorough \/ candidates[j] >= data.minAllowed } } ]

(***************************************************************************)
(* One call of a generator on arguments from small sets.                   *)
(***************************************************************************)
\* longest array handed to sampleCandidates
MaxValues == 4

\* most liquidation volumes of one side
MaxVolumes == 3

SeqsUpTo(S, n) == UNION { [1..k -> S] : k \in 0..n }

SampleCalls ==
  [ fn : {"sampleCandidates"}, values : SeqsUpTo({0, 10, 20, 30, 40}, MaxValues),
    maxCount : 0..3, thorough : BOOLEAN ]

ThresholdCalls ==
  [ fn : {"generateThresholdCandidates"},
    volumes : SeqsUpTo({4, 200, 1000, 3000}, MaxVolumes),
    currentThreshold : {0, 1000}, maxCount : {3, 12, 48}, thorough : BOOLEAN ]

SweepCalls ==
  [ fn : {"thresholdSweep"}, volumes : SeqsUpTo({4, 200, 1000, 3000}, MaxVolumes),
    configThreshold : {0, 1000}, thorough : BOOLEAN ]

LeverageCalls ==
  [ fn : {"generateLeverageCandidates"}, currentLeverage : {0, 3, 10, 30},
    thorough : BOOLEAN ]

MarginCalls ==
  [ fn : {"generateMarginCandidates"}, capitalBudget : {0, 10, 100},
    currentMargin : {0, 4, 50}, minMargin : {0, 20}, minRequired : {0, 12},
    thorough : BOOLEAN ]

InitGen ==
  /\ OptInit /\ RunIdle /\ SimIdle /\ RiskIdle /\ JobIdle
  /\ genArgs \in SampleCalls \cup ThresholdCalls \cup SweepCalls \cup LeverageCalls
                   \cup MarginCalls
  /\ genResult = Nil

GenReturn(fn, result) ==
  /\ IsNil(genResult)
  /\ genArgs.fn = fn
  /\ genResult' = result
  /\ UNCHANGED << genArgs, optVars, runVars, simVars, riskVars, jobVars >>

SampleCall ==
  /\ genArgs.fn = "sampleCandidates"
  /\ GenReturn("sampleCandidates",
               [candidates |->
                  sampleCandidates(genArgs.values, genArgs.maxCount, genArgs.thorough)])

ThresholdCall ==
  /\ genArgs.fn = "generateThresholdCandidates"
  /\ GenReturn("generateThresholdCandidates",
               generateThresholdCandidates(genArgs.volumes, genArgs.currentThreshold,
                                           genArgs.maxCount, genArgs.thorough))

SweepCall ==
  /\ genArgs.fn = "thresholdSweep"
  /\ GenReturn("thresholdSweep",
               ThresholdSweep(genArgs.volumes, genArgs.configThreshold,
                              genArgs.thorough))

LeverageCall ==
  /\ genArgs.fn = "generateLeverageCandidates"
  /\ GenReturn("generateLeverageCandidates",
               [candidates |->
                  generateLeverageCandidates(genArgs.currentLeverage, genArgs.thorough)])

MarginCall ==
  /\ genArgs.fn = "generateMarginCandidates"
  /\ GenReturn("generateMarginCandidates",
               [candidates |->
                  generateMarginCandidates(genArgs.capitalBudget, genArgs.currentMargin,
                                           genArgs.minMargin, genArgs.minRequired,
                                           genArgs.thorough)])

NextGen ==
  \/ SampleCall
  \/ ThresholdCall
  \/ SweepCall
  \/ LeverageCall
  \/ MarginCall

SpecGen == InitGen /\ [][NextGen]_vars


GeneratorReturned(fn) == ~IsNil(genResult) /\ genArgs.fn = fn

ReturnedWithoutEvents == pc = "done" /\ liquidationSides = {}

ZeroImprovements == [long |-> NFin(0), short |-> NFin(0), totalDaily |-> NFin(0)]

requiredLongSlots == Max(cur.longBasePositions, determineMinDcaSlots(range95))

requiredShortSlots == Max(cur.shortBasePositions, determineMinDcaSlots(range95))

\* the last step was a coarse step whose pair passed the checks of lines
\* 1542-1594 and whose TP/SL combination was simulated
CoarseSimulated ==
  /\ pc = "coarse"
  /\ pos.li > 1 \/ pos.mi > 1 \/ pos.ti > 1 \/ pos.si > 1
  /\ callLog # <<>>

\* C24: a (leverage, margin) pair that proceeds to TP/SL evaluation is simulated
\* with at least requiredLongSlots long positions and at least
\* requiredShortSlots short positions
C24_ProceedingPairsMeetRequiredSlots ==
  CoarseSimulated =>
    \A i \in 1..Len(callLog) :
      callLog[i].args.maxPositions >=
        (IF callLog[i].args.side = "SELL" THEN requiredLongSlots
         ELSE requiredShortSlots)


(***************************************************************************)
(* Leverage of the combinations searched without bracket data.             *)
(***************************************************************************)
\* lines 237-242, leverageBrackets[symbol] absent: the conservative default
getMaxLeverageForNotional(notionalValue) == 10

\* C25: without leverage-bracket data no combination with leverage above 10 is
\* simulated in the TP/SL loops, and none replaces the running best
C25_LeverageCappedWithoutBrackets ==
  /\ CoarseSimulated =>
       \A i \in 1..Len(callLog) :
         callLog[i].args.leverage <=
           getMaxLeverageForNotional(callLog[i].args.tradeSize
                                     * callLog[i].args.leverage)
  /\ CoarseAccepted =>
       bestCombination.leverage <=
         getMaxLeverageForNotional(bestCombination.long.tradeSize
                                   * bestCombination.leverage)


(***************************************************************************)
(* Progress of one run.                                                    *)
(***************************************************************************)
\* C26: the percentages one run prints are non-decreasing and lie in [0, 100],
\* and a run that finished without error printed 100 last
C26_ProgressMonotone ==
  /\ \A i \in 1..Len(progress) : progress[i] >= 0 /\ progress[i] <= 10000
  /\ \A i \in 1..(Len(progress) - 1) : progress[i] <= progress[i + 1]
  /\ mainPc = "done" => (progress # <<>> /\ progress[Len(progress)] = 10000)

\* a run over three symbols finished: eleven percentages before the loop, one
\* per symbol, one after the loop and six in the rest of main
C26_Witness ==
  /\ mainPc = "done"
  /\ Len(symbolEntries) = 3
  /\ processedSymbols = 3
  /\ Len(progress) = 21


(***************************************************************************)
(* Feasibility of the parameter sets that can be recommended.              *)
(***************************************************************************)
\* SL < (100 / leverage) * 0.9 and TP / SL >= 0.33, TP and SL in tenths
LiquidationSafeAndRewarding(leverage, tp, sl) ==
  /\ sl * leverage < 900
  /\ 100 * tp >= 33 * sl

\* C27: the running best, from its seeding with the current configuration on,
\* and the recommendation returned have SL < (100 / leverage) * 0.9 and
\* TP / SL >= 0.33
C27_RecommendableSetsFeasible ==
  /\ ~IsNil(bestCombination) =>
       LiquidationSafeAndRewarding(bestCombination.leverage, bestCombination.tp,
                                   bestCombination.sl)
  /\ pc = "done" =>
       LiquidationSafeAndRewarding(returned.optimized.leverage, returned.optimized.tp,
                                   returned.optimized.sl)


(***************************************************************************)
(* The threshold floor in the two modes.                                   *)
(***************************************************************************)
\* C28: in quick mode no threshold below the side's minAllowed is simulated in
\* the coarse search; in thorough mode every generated threshold below
\* minAllowed is kept and simulated
C28_FloorInQuickModeOnly ==
  GeneratorReturned("thresholdSweep") =>
    /\ ~genArgs.thorough =>
         \A t \in genResult.simulated : t >= genResult.minAllowed
    /\ genArgs.thorough =>
         \A i \in 1..Len(genResult.sampled) :
           genResult.sampled[i] < genResult.minAllowed =>
             Max(1, genResult.sampled[i]) \in genResult.simulated


(***************************************************************************)
(* sampleCandidates.                                                       *)
(***************************************************************************)
\* the positive values of the array handed to sampleCandidates
PositiveValues == { genArgs.values[i] : i \in 1..Len(genArgs.values) } \ {0}

CoarseParameters(best) ==
  << best.leverage, best.margin, best.tp, best.sl, best.long.threshold,
     best.short.threshold, best.long.tradeSize, best.short.tradeSize,
     best.long.maxPositions, best.short.maxPositions >>

\* C30: from the end of the coarse search through the refinement loop and the
\* write-back of its winner, leverage, margin, TP, SL, both thresholds, both
\* trade sizes and both maxPositions of the best combination do not change
C30_RefinementKeepsParameters ==
  [][ (pc \in {"refine", "stress"} \/ pc' \in {"refine", "stress"})
        => CoarseParameters(bestCombination') = CoarseParameters(bestCombination) ]_vars

\* the refinement replaced the cooldown of a best combination that the coarse
\* search had taken from its candidates
C30_Witness ==
  /\ pc = "stress"
  /\ refine.bestCooldownMs # cur.currentCooldownMs
  /\ diagnostics.combinationsAccepted > 0
  /\ bestCombination.leverage # cur.leverageCurrent


(***************************************************************************)
(* The LIMIT non-fill skip.                                                *)
(***************************************************************************)
\* the step handled an event that passed the entry gate and was skipped by
\* the draw of line 2619
NonFillStep ==
  /\ simPc = "events"
  /\ Len(gateLog') = Len(gateLog) + 1
  /\ gateLog'[Len(gateLog')] = "nofill"

\* C31: an entry skipped by the LIMIT non-fill opens no position, leaves the
\* ledger and the running PnL as they were and updates neither the per-side
\* nor the hunter last-entry time
C31_NonFillChangesNothing ==
  [][ NonFillStep =>
        /\ activePositions' = activePositions
        /\ completedTrades' = completedTrades
        /\ totalPnl' = totalPnl
        /\ lastEntryTime' = lastEntryTime
        /\ lastHunterEntryTime' = lastHunterEntryTime
        /\ entryLog' = entryLog ]_vars

\* an event was skipped by the non-fill and the next event, less than the
\* cooldown later, opened a position
C31_Witness ==
  \E i \in 1..(Len(gateLog) - 1) :
    /\ gateLog[i] = "nofill"
    /\ gateLog[i + 1] \in {"limit", "market"}
    /\ liquidations[i + 1].event_time - liquidations[i].event_time
         < SimOptions(simArgs.options).cooldownMs


(***************************************************************************)
(* The order in which bars are evaluated.                                  *)
(***************************************************************************)
\* the bars not evaluated yet
BarsAhead == { k \in 1..Len(allPrices) : k >= priceIndex }

\* the entry test of the current event is about to run
EntryTestNext == simPc = "events" /\ eventIndex <= Len(liquidations) /\ ~BarPending

\* C32: the bars are evaluated one by one in array order, which is timestamp
\* order; when the entry test of an event runs no bar with a timestamp at or
\* before the event time is left; no open position has a bar ahead whose
\* timestamp is at or before its entry time, and a TP or SL exit happened on a
\* bar after the entry; at return every bar has been evaluated
C32_BarsOnceInOrderBeforeEntry ==
  /\ InsideRun =>
       \A k \in 1..(Len(allPrices) - 1) :
         allPrices[k].event_time <= allPrices[k + 1].event_time
  /\ EntryTestNext =>
       \A k \in BarsAhead : allPrices[k].event_time > liquidations[eventIndex].event_time
  /\ InsideRun =>
       \A i \in 1..Len(activePositions) : \A k \in BarsAhead :
         allPrices[k].event_time > activePositions[i].entryTime
  /\ \A i \in 1..Len(completedTrades) :
       completedTrades[i].exitReason \in {"TP", "SL"} => completedTrades[i].duration > 0
  /\ (simPc = "returned" /\ Len(liquidations) > 0) => priceIndex = Len(allPrices) + 1

\* a position entered at an event whose time is also a bar's timestamp was
\* closed by TP or SL, with bars evaluated before and after the event
C32_Witness ==
  /\ simPc = "returned"
  /\ \E i \in 1..Len(completedTrades), e \in 1..Len(entryLog), k \in 1..Len(allPrices) :
       /\ completedTrades[i].exitReason \in {"TP", "SL"}
       /\ allPrices[k].event_time = entryLog[e].time
       /\ completedTrades[i].duration =
            allPrices[k + 1].event_time - entryLog[e].time


(***************************************************************************)
(* Every position is closed once.                                          *)
(***************************************************************************)
\* the positions the step removed from activePositions
ClosedByStep == Range(activePositions) \ Range(activePositions')

\* the ledger entries the step appended
AppendedByStep ==
  SubSeq(completedTrades', Len(completedTrades) + 1, Len(completedTrades'))

\* the time recordExit is called with in the step: the bar evaluated, or the
\* last bar when the run closes what is left
StepExitTime ==
  IF priceIndex <= Len(allPrices) THEN allPrices[priceIndex].event_time
  ELSE LastBar.event_time

\* the ledger entry is the exit of the position
ExitOf(entry, position) ==
  /\ entry.entryPrice = position.entryPrice
  /\ entry.duration = StepExitTime - position.entryTime
  /\ entry.exitReason \in {"TP", "SL", "EOD"}

\* C33: every position opened in a run is closed exactly once, by TP, SL or
\* EOD: a step appends to the ledger one entry for each position it removes
\* from the open positions and nothing else, a position that stays open is
\* kept as it is, and at return the ledger has as many entries as positions
\* were opened and none is open
C33_EveryPositionClosedOnce ==
  /\ [](\A i, j \in 1..Len(activePositions) :
          i # j => activePositions[i].entryTime # activePositions[j].entryTime)
  /\ [](simPc = "returned" =>
          /\ Len(completedTrades) = Len(entryLog)
          /\ activePositions = <<>>)
  /\ [][InsideRun =>
          /\ Len(AppendedByStep) = Cardinality(ClosedByStep)
          /\ \A p \in ClosedByStep :
               Cardinality({ k \in 1..Len(AppendedByStep) :
                               ExitOf(AppendedByStep[k], p) }) = 1
          /\ Cardinality(Range(activePositions') \ Range(activePositions))
               = Len(entryLog') - Len(entryLog)]_vars

\* a run that opened two positions returned, one closed on a bar and one at
\* the end of the data
C33_Witness ==
  /\ simPc = "returned"
  /\ Len(entryLog) >= 2
  /\ \E i, j \in 1..Len(completedTrades) :
       /\ completedTrades[i].exitReason \in {"TP", "SL"}
       /\ completedTrades[j].exitReason = "EOD"


(***************************************************************************)
(* Durations in the ledger.                                                *)
(***************************************************************************)
\* C34: every completed trade has a non-negative duration: its exit time is
\* not earlier than its entry time
C34_DurationsNonNegative ==
  \A i \in 1..Len(completedTrades) : completedTrades[i].duration >= 0


(***************************************************************************)
(* The score reported for the recommendation.                              *)
(***************************************************************************)
\* C35: the finalScore returned for the optimized recommendation is the score
\* of the recommended configuration: its final long and short results scored
\* by the weighted formula less the volatility, CVaR and scenario penalties.
\* Stated for finite scores.
C35_ReportedScoreIsOwnScore ==
  (pc = "done" /\ IsFinite(returned.optimized.finalScore) /\ IsFinite(RecommendedScore))
    => returned.optimized.finalScore = RecommendedScore


(***************************************************************************)
(* The optimizer service (src/unnamed/part_004): the job store, one        *)
(* runOptimization per job, its timer, its cancellation poll and the       *)
(* optimizer process it spawns.  Progress is in hundredths of a percent.   *)
(* A handler runs to its next await without interleaving; the code after   *)
(* the awaited promise settles runs with the event that settled it.        *)
(***************************************************************************)

\* the store as the handlers see it
Store == [jobs |-> jobs, job |-> job, shared |-> shared, jobsFile |-> jobsFile]

\* lines 135-147: the job object startOptimization creates
NewJob == [status |-> "queued", progress |-> 0]

\* an assignment to a field of the object the Map holds under jobId
MapObject(s, jobId, object) ==
  [s EXCEPT !.jobs[jobId] = object,
            !.job[jobId] = IF jobId \in s.shared THEN object ELSE @]

\* an assignment to a field of runOptimization's local `job`
OwnObject(s, jobId, object) ==
  [s EXCEPT !.job[jobId] = object,
            !.jobs = IF jobId \in s.shared THEN [@ EXCEPT ![jobId] = object] ELSE @]

\* jobs.set(jobId, job) with runOptimization's local `job` (lines 247, 388, 395)
jobsSet(s, jobId) ==
  [s EXCEPT !.jobs = [k \in DOMAIN s.jobs \cup {jobId} |->
                        IF k = jobId THEN s.job[jobId] ELSE s.jobs[k]],
            !.shared = @ \cup {jobId}]

\* lines 64-75
persistJobsToDisk(s) == [s EXCEPT !.jobsFile = s.jobs]

\* lines 46-63: every job of the file replaces the Map's entry by a parsed copy
hydrateJobsFromDisk(s) ==
  IF IsNil(s.jobsFile) THEN s
  ELSE [s EXCEPT !.jobs = [k \in DOMAIN s.jobs \cup DOMAIN s.jobsFile |->
                             IF k \in DOMAIN s.jobsFile THEN s.jobsFile[k] ELSE s.jobs[k]],
                 !.shared = @ \ DOMAIN s.jobsFile]

\* lines 102-117
updateJobProgress(s, jobId, percent) ==
  IF jobId \notin DOMAIN s.jobs THEN s
  ELSE persistJobsToDisk(
         MapObject(s, jobId, [s.jobs[jobId] EXCEPT !.progress = Min(10000, Max(0, percent))]))

\* lines 391-396: the catch block of runOptimization
CatchFailure(s, jobId) ==
  persistJobsToDisk(jobsSet(OwnObject(s, jobId, [s.job[jobId] EXCEPT !.status = "failed"]), jobId))

\* lines 375-390: the code after the awaited promise resolves
LoadResults(s, jobId, fileExists) ==
  LET loading == updateJobProgress(s, jobId, 9800)
      complete == updateJobProgress(loading, jobId, 10000)
  IN IF ~fileExists THEN CatchFailure(loading, jobId)
     ELSE persistJobsToDisk(
            jobsSet(OwnObject(complete, jobId, [complete.job[jobId] EXCEPT !.status = "completed"]),
                    jobId))

ProgressLine(percent) == [kind |-> "progress", percent |-> percent]

AnalyzingLine == [kind |-> "analyzing", percent |-> 0]

ResultsSavedLine == [kind |-> "saved", percent |-> 0]

CompleteLine == [kind |-> "complete", percent |-> 0]

\* what optimize-config.js prints for one configured symbol, in the chunks main
\* prints between two of its awaits: emitProgress prints the clamped percentage
\* with two decimals (lines 606-611)
OptimizerOutput ==
  << << ProgressLine(0), ProgressLine(500) >>,
     << ProgressLine(1000), ProgressLine(1800), ProgressLine(2400), ProgressLine(2800),
        ProgressLine(3200) >>,
     << ProgressLine(3600), ProgressLine(4000), ProgressLine(4500), ProgressLine(5000),
        ProgressLine(symbolProgress(1, 1)), AnalyzingLine >>,
     << ProgressLine(progressEnd), ProgressLine(9000), ProgressLine(9400), ResultsSavedLine,
        ProgressLine(9700), ProgressLine(9800) >>,
     << ProgressLine(9900), ProgressLine(10000), CompleteLine >> >>

existingProgress(s, jobId) == IF jobId \in DOMAIN s.jobs THEN s.jobs[jobId].progress ELSE 0

\* lines 292-328: one line of the optimizer's output
ParseLine(s, jobId, line) ==
  CASE line.kind = "progress" -> updateJobProgress(s, jobId, line.percent)
    [] line.kind = "analyzing" -> updateJobProgress(s, jobId, existingProgress(s, jobId))
    [] line.kind = "saved" -> updateJobProgress(s, jobId, Max(existingProgress(s, jobId), 9500))
    [] line.kind = "complete" -> updateJobProgress(s, jobId, 10000)

\* lines 288-329: the lines of one data event, in order
RECURSIVE ParseOutput(_, _, _)
ParseOutput(s, jobId, lines) ==
  IF lines = <<>> THEN s
  ELSE ParseOutput(ParseLine(s, jobId, Head(lines)), jobId, Tail(lines))

\* the store the handler leaves
StoreBecomes(s) ==
  /\ jobs' = s.jobs
  /\ job' = s.job
  /\ shared' = s.shared
  /\ jobsFile' = s.jobsFile

\* lines 121-161 with lines 230-251: startOptimization creates the job and
\* runOptimization runs up to its first await (a request whose weights do not
\* sum to 100 throws before any job exists)
startOptimization(jobId) ==
  /\ proc[jobId].pc = "none"
  /\ LET created == persistJobsToDisk(jobsSet([Store EXCEPT !.job[jobId] = NewJob], jobId))
         running == persistJobsToDisk(jobsSet(
                      OwnObject(created, jobId, [status |-> "running", progress |-> 0]), jobId))
     IN StoreBecomes(updateJobProgress(running, jobId, 500))
  /\ proc' = [proc EXCEPT ![jobId] = [@ EXCEPT !.pc = "loading", !.timeout = TRUE]]
  /\ UNCHANGED << resultsFile, cancelAccepted, resetCleared >>
  /\ UNCHANGED << optVars, runVars, simVars, riskVars, genVars >>

\* lines 251-285 and 350-373: loadConfig resolved; the optimizer is spawned
\* unless its script is missing (line 275)
SpawnOptimizer(jobId) ==
  /\ proc[jobId].pc = "loading"
  /\ \E scriptExists \in BOOLEAN :
       LET announced == updateJobProgress(Store, jobId, 1000)
       IN IF scriptExists
          THEN /\ StoreBecomes(announced)
               /\ proc' = [proc EXCEPT ![jobId] =
                             [@ EXCEPT !.pc = "waiting", !.poll = TRUE, !.child = "alive"]]
          ELSE /\ StoreBecomes(CatchFailure(announced, jobId))
               /\ proc' = [proc EXCEPT ![jobId] = [@ EXCEPT !.pc = "settled"]]
  /\ UNCHANGED << resultsFile, cancelAccepted, resetCleared >>
  /\ UNCHANGED << optVars, runVars, simVars, riskVars, genVars >>

\* line 251: loadConfig rejected
LoadConfigFails(jobId) ==
  /\ proc[jobId].pc = "loading"
  /\ StoreBecomes(CatchFailure(Store, jobId))
  /\ proc' = [proc EXCEPT ![jobId] = [@ EXCEPT !.pc = "settled"]]
  /\ UNCHANGED << resultsFile, cancelAccepted, resetCleared >>
  /\ UNCHANGED << optVars, runVars, simVars, riskVars, genVars >>

\* lines 288-329: a data event with the optimizer's next chunk; the optimizer
\* has written optimization-results.json before it prints 'Results saved'
\* (optimize-config.js lines 3368-3373)
StdoutData(jobId) ==
  /\ proc[jobId].child = "alive"
  /\ proc[jobId].out < Len(OptimizerOutput)
  /\ LET lines == OptimizerOutput[proc[jobId].out + 1]
     IN /\ StoreBecomes(ParseOutput(Store, jobId, lines))
        /\ resultsFile' = (resultsFile \/ \E i \in 1..Len(lines) : lines[i].kind = "saved")
  /\ proc' = [proc EXCEPT ![jobId] = [@ EXCEPT !.out = @ + 1]]
  /\ UNCHANGED << cancelAccepted, resetCleared >>
  /\ UNCHANGED << optVars, runVars, simVars, riskVars, genVars >>

\* lines 351-357, 370-372 and 375-396: the optimizer process closed with the
\* given exit code (main catches its own errors, so a run that printed only
\* part of its output also exits with 0; a killed process has no code)
ProcessClose(jobId) ==
  /\ proc[jobId].child = "alive"
  /\ \E code \in {0, 1} :
       /\ StoreBecomes(IF proc[jobId].pc # "waiting" THEN Store
                       ELSE IF code = 0 THEN LoadResults(Store, jobId, resultsFile)
                       ELSE CatchFailure(Store, jobId))
       /\ proc' = [proc EXCEPT ![jobId] =
                     [@ EXCEPT !.pc = IF @ = "waiting" THEN "settled" ELSE @,
                               !.child = "closed",
                               !.poll = FALSE,
                               !.timeout = IF proc[jobId].pc = "waiting" /\ code = 0 /\ resultsFile
                                           THEN FALSE ELSE @]]
  /\ UNCHANGED << resultsFile, cancelAccepted, resetCleared >>
  /\ UNCHANGED << optVars, runVars, simVars, riskVars, genVars >>

\* lines 358-360: the process emitted 'error' because it could not be spawned
ProcessError(jobId) ==
  /\ proc[jobId].child = "alive"
  /\ proc[jobId].out = 0
  /\ proc[jobId].pc = "waiting"
  /\ StoreBecomes(CatchFailure(Store, jobId))
  /\ proc' = [proc EXCEPT ![jobId] = [@ EXCEPT !.pc = "settled"]]
  /\ UNCHANGED << resultsFile, cancelAccepted, resetCleared >>
  /\ UNCHANGED << optVars, runVars, simVars, riskVars, genVars >>

\* lines 362-369: a tick of the cancellation poll that finds the job cancelled
\* (any other tick changes nothing); the killed process closes later
CancellationPoll(jobId) ==
  /\ proc[jobId].poll
  /\ jobId \in DOMAIN jobs
  /\ jobs[jobId].status = "cancelled"
  /\ StoreBecomes(IF proc[jobId].pc = "waiting" THEN CatchFailure(Store, jobId) ELSE Store)
  /\ proc' = [proc EXCEPT ![jobId] =
                [@ EXCEPT !.pc = IF @ = "waiting" THEN "settled" ELSE @, !.poll = FALSE]]
  /\ UNCHANGED << resultsFile, cancelAccepted, resetCleared >>
  /\ UNCHANGED << optVars, runVars, simVars, riskVars, genVars >>

\* lines 235-243: the one-hour timer fires
OptimizerTimeout(jobId) ==
  /\ proc[jobId].timeout
  /\ StoreBecomes(IF jobId \in DOMAIN jobs /\ jobs[jobId].status = "running"
                  THEN persistJobsToDisk(
                         MapObject(Store, jobId, [jobs[jobId] EXCEPT !.status = "failed"]))
                  ELSE Store)
  /\ proc' = [proc EXCEPT ![jobId] = [@ EXCEPT !.timeout = FALSE]]
  /\ UNCHANGED << resultsFile, cancelAccepted, resetCleared >>
  /\ UNCHANGED << optVars, runVars, simVars, riskVars, genVars >>

\* lines 179-189: a call that returns true (one that returns false changes nothing)
cancelJob(jobId) ==
  /\ jobId \in DOMAIN jobs
  /\ jobs[jobId].status \notin {"completed", "failed"}
  /\ StoreBecomes(persistJobsToDisk(
                    MapObject(Store, jobId, [jobs[jobId] EXCEPT !.status = "cancelled"])))
  /\ cancelAccepted' = IF jobs[jobId].status = "running" THEN cancelAccepted \cup {jobId}
                       ELSE cancelAccepted
  /\ UNCHANGED << resultsFile, proc, resetCleared >>
  /\ UNCHANGED << optVars, runVars, simVars, riskVars, genVars >>

\* lines 165-175: a lookup that misses hydrates the Map from the jobs file (a
\* lookup that hits changes nothing)
getJobStatus(jobId) ==
  /\ jobId \notin DOMAIN jobs
  /\ StoreBecomes(hydrateJobsFromDisk(Store))
  /\ UNCHANGED << resultsFile, proc, cancelAccepted, resetCleared >>
  /\ UNCHANGED << optVars, runVars, simVars, riskVars, genVars >>

\* lines 433-480
resetOptimizerState ==
  /\ job' = [k \in JobIds |->
               IF k \in shared /\ jobs[k].status \in {"running", "queued"}
               THEN [job[k] EXCEPT !.status = "cancelled"] ELSE job[k]]
  /\ jobs' = [k \in {} |-> Nil]
  /\ shared' = {}
  /\ jobsFile' = Nil
  /\ resultsFile' = FALSE
  /\ resetCleared' = resetCleared \cup DOMAIN jobs
  /\ UNCHANGED << proc, cancelAccepted >>
  /\ UNCHANGED << optVars, runVars, simVars, riskVars, genVars >>

NextJob ==
  \/ \E jobId \in JobIds : startOptimization(jobId)
  \/ \E jobId \in JobIds : SpawnOptimizer(jobId)
  \/ \E jobId \in JobIds : LoadConfigFails(jobId)
  \/ \E jobId \in JobIds : StdoutData(jobId)
  \/ \E jobId \in JobIds : ProcessClose(jobId)
  \/ \E jobId \in JobIds : ProcessError(jobId)
  \/ \E jobId \in JobIds : CancellationPoll(jobId)
  \/ \E jobId \in JobIds : OptimizerTimeout(jobId)
  \/ \E jobId \in JobIds : cancelJob(jobId)
  \/ \E jobId \in JobIds : getJobStatus(jobId)
  \/ resetOptimizerState

SpecJob == Init /\ [][NextJob]_vars


\* C36: once cancelJob has returned true for a running job, the job the store
\* holds under that id has status 'cancelled' in every later state.
C36_CancelledStaysCancelled ==
  \A jobId \in cancelAccepted : jobId \in DOMAIN jobs => jobs[jobId].status = "cancelled"

\* C37: a job the store holds with status 'completed' or 'failed' has the same
\* status after every step that keeps it in the store.
C37_TerminalStatusesStay ==
  [][ \A jobId \in DOMAIN jobs \cap DOMAIN jobs' :
        jobs[jobId].status \in {"completed", "failed"}
          => jobs'[jobId].status = jobs[jobId].status ]_vars

\* C38: the progress getJobStatus returns for a job is within [0, 100] and no
\* step lowers it.
C38_ProgressNeverDecreases ==
  [][ \A jobId \in DOMAIN jobs \cap DOMAIN jobs' :
        /\ jobs'[jobId].progress \in 0..10000
        /\ jobs'[jobId].progress >= jobs[jobId].progress ]_vars

\* C39: a job the store held when resetOptimizerState ran is in the store in no
\* later state.
C39_ResetJobsStayGone == \A jobId \in resetCleared : jobId \notin DOMAIN jobs


\* the calls of a step that ran the simulator
SimulatorRuns(calls) == { i \in 1..Len(calls) : ~calls[i].hit }

\* the cache keys the calls of a step asked for
RequestedKeys(c, calls) == { BacktestKey(c, calls[i].args) : i \in 1..Len(calls) }

\* C40: the cache of a run of optimizeSymbolParameters is empty until the run's
\* first runBacktest call, so every result it returns was computed in this run
\* for this run's symbol; the simulator runs exactly once per distinct key:
\* executed counts the keys in the cache, which are the keys requested so far,
\* and every step adds the number of its calls to executed + cacheHits.
C40_OneRunPerKeyPerSymbolRun ==
  /\ [](pc \in {"idle", "baseline"} => DOMAIN backtestCache = {})
  /\ [](diagnostics.backtests.executed = Cardinality(DOMAIN backtestCache))
  /\ [][ LET calls == callLog'
             before == diagnostics.backtests
             after == diagnostics'.backtests
         IN /\ (after.executed + after.cacheHits) - (before.executed + before.cacheHits)
                 = Len(calls)
            /\ after.executed - before.executed = Cardinality(SimulatorRuns(calls))
            /\ DOMAIN backtestCache' = DOMAIN backtestCache \cup RequestedKeys(cur', calls)
            /\ \A i \in 1..Len(calls) :
                 LET key == BacktestKey(cur', calls[i].args)
                     earlier == { j \in 1..(i - 1) : BacktestKey(cur', calls[j].args) = key }
                 IN /\ calls[i].hit <=> (key \in DOMAIN backtestCache \/ earlier # {})
                    /\ calls[i].result = backtestCache'[key].result
                    /\ BacktestKey(cur', calls[i].producer) = key ]_vars

\* a finished run in which the simulator ran for several keys and a later call
\* was answered from the cache
C40_Witness ==
  /\ pc = "done"
  /\ diagnostics.backtests.executed >= 3
  /\ diagnostics.backtests.cacheHits >= 1
  /\ \E i \in 1..Len(callLog) : callLog[i].hit

====
